---- MODULE Spec2Model ----
(***************************************************************************)
(* Sales-call orchestration pipeline of the ticket sales agent:            *)
(* AgentOrchestrator (src/src/agents/orchestrator.py), the task harness    *)
(* BaseAgent / DataAnalystAgent (src/src/agents/) and the collaborators    *)
(* Neo4jClient, WeaviateClient and VAPIClient it drives, and the webhook    *)
(* receiver of vapi_integration.py that aggregates call outcomes.          *)
(*                                                                         *)
(* Python values are modelled as follows: a dict is a record, a list is a  *)
(* sequence, None is the record None below, a formatted message is the     *)
(* sequence of its fixed text and its interpolated values.  Scores are     *)
(* kept in tenths (0.8 is 8).                                              *)
(***************************************************************************)
EXTENDS Integers, Sequences, FiniteSets, TLC

\* ------------------------------------------------------------------ bounds
MaxBatch == 2          \* longest user_list handed to batch_process_calls
MaxClock == 1          \* largest value of the event loop's clock
MaxEvents == 3         \* webhook requests delivered in one behaviour
MaxInflight == 2       \* webhook requests waiting on the event loop at once
MaxHistory == 12       \* longest history handed to _determine_user_segment
MaxDated == 6          \* most dated entries of a history handed to
                       \* _calculate_engagement_level
MaxCandidates == 7     \* longest list of games handed to the match task

\* ------------------------------------------------------- python primitives
None == [none |-> TRUE]

Get(d, k, default) == IF k \in DOMAIN d THEN d[k] ELSE default

Prefix(s, n) == IF Len(s) <= n THEN s ELSE SubSeq(s, 1, n)

Min(a, b) == IF a <= b THEN a ELSE b

RECURSIVE SumSeq(_)
SumSeq(s) == IF s = <<>> THEN 0 ELSE Head(s) + SumSeq(Tail(s))

EmptyDict == [k \in {} |-> None]

\* ------------------------------------------------------ the graph store
\* Rows as the Cypher queries of Neo4jClient return them.  attended_date is a
\* day number, 0 standing for a null property.
Users == {"u1", "u2", "u3", "u4"}

Phone(u) == "+1555"

UserNodes ==
    [u1 |-> [id |-> "u1", name |-> "Ann"],
     u3 |-> [id |-> "u3", name |-> "Cy"],
     u4 |-> [id |-> "u4", name |-> "Di"]]

Attended ==
    [u1 |-> << [game_id |-> "g1", game_title |-> "Derby", ticket_type |-> "Premium",
                rating |-> 5, attended_date |-> 2],
               [game_id |-> "g2", game_title |-> "Opener", ticket_type |-> "Premium",
                rating |-> 4, attended_date |-> 1] >>,
     u2 |-> << >>,
     u3 |-> << [game_id |-> "g1", game_title |-> "Derby", ticket_type |-> "Standard",
                rating |-> 2, attended_date |-> 0] >>,
     u4 |-> << >>]

\* a Team node whose name property is the number 49
NumberName == "#49"

InterestedIn == [u1 |-> <<"Giants">>, u2 |-> << >>, u3 |-> << >>, u4 |-> <<NumberName>>]

Prefers == [u1 |-> <<"baseball">>, u2 |-> << >>, u3 |-> << >>, u4 |-> << >>]

\* Neo4jClient.get_user_profile: the single row, or None when there is none
get_user_profile(user_id) ==
    IF user_id \in DOMAIN UserNodes THEN UserNodes[user_id] ELSE None

\* Neo4jClient.get_user_game_history: ORDER BY attended_date DESC LIMIT limit
get_user_game_history(user_id, limit) == Prefix(Attended[user_id], limit)

\* Neo4jClient.get_user_preferences: the row, or the empty dict without a row
get_user_preferences(user_id) ==
    IF user_id \in DOMAIN UserNodes
    THEN [favorite_teams |-> InterestedIn[user_id],
          favorite_sports |-> Prefers[user_id]]
    ELSE EmptyDict

\* Neo4jClient.get_similar_users
get_similar_users(user_id, limit) == << >>

\* ------------------------------------------------- DataAnalystAgent scoring
\* Exceptions a scoring function raises are returned as these markers.
ZeroDivisionError == "division by zero"
TypeError == "argument of type 'NoneType' is not iterable"
CompareError == "'>' not supported between instances of 'NoneType' and 'str'"
NullType == "<null>"        \* a null ticket_type property

Truthy(list) == list /= << >>

\* the thresholds tried from the lowest up
_determine_user_segment_reordered(history, preferences) ==
    IF Len(history) >= 2 THEN "Occasional_Fan"
    ELSE IF Len(history) >= 5 THEN "Regular_Attendee"
    ELSE IF Len(history) >= 10 THEN "VIP_Fan"
    ELSE IF Truthy(Get(preferences, "favorite_teams", << >>))
            \/ Truthy(Get(preferences, "favorite_sports", << >>))
         THEN "Interested_Prospect"
    ELSE "New_Prospect"
_determine_user_segment(history, preferences) ==
    IF Len(history) >= 10 THEN "VIP_Fan"
    ELSE IF Len(history) >= 5 THEN "Regular_Attendee"
    ELSE IF Len(history) >= 2 THEN "Occasional_Fan"
    ELSE IF Truthy(Get(preferences, "favorite_teams", << >>))
            \/ Truthy(Get(preferences, "favorite_sports", << >>))
         THEN "Interested_Prospect"
    ELSE "New_Prospect"

Ratings(games) == [k \in 1..Len(games) |-> Get(games[k], "satisfaction_rating", 3)]

\* every dated entry averaged
_calculate_engagement_level_unsliced(history) ==
    IF history = << >> THEN "Low"
    ELSE LET HasDate(g) == Get(g, "attended_date", 0) /= 0
             recent_games == SelectSeq(history, HasDate)
             total == SumSeq(Ratings(recent_games))
             n == Len(recent_games)
         IN  IF n = 0 THEN ZeroDivisionError
             ELSE IF 10 * total >= 45 * n THEN "High"
             ELSE IF 10 * total >= 35 * n THEN "Medium"
             ELSE "Low"
_calculate_engagement_level(history) ==
    IF history = << >> THEN "Low"
    ELSE LET HasDate(g) == Get(g, "attended_date", 0) /= 0
             recent_games == Prefix(SelectSeq(history, HasDate), 5)
             total == SumSeq(Ratings(recent_games))
             n == Len(recent_games)
         IN  IF n = 0 THEN ZeroDivisionError
             ELSE IF 10 * total >= 45 * n THEN "High"
             ELSE IF 10 * total >= 35 * n THEN "Medium"
             ELSE "Low"

_extract_preferred_categories(history, preferences) ==
    {<<"Team", t>> : t \in {Get(preferences, "favorite_teams", << >>)[k] :
                              k \in DOMAIN Get(preferences, "favorite_teams", << >>)}}
    \cup
    {<<"Sport", s>> : s \in {Get(preferences, "favorite_sports", << >>)[k] :
                               k \in DOMAIN Get(preferences, "favorite_sports", << >>)}}

IsPremium(t) == t \in {"Premium", "VIP", "VIP Premium"}

Count(s, x) == Cardinality({k \in DOMAIN s : s[k] = x})

_analyze_spending_pattern(history) ==
    IF history = << >>
    THEN [pattern |-> "Unknown", average_ticket_type |-> "Standard"]
    ELSE LET ticket_types == [k \in 1..Len(history) |->
                                 Get(history[k], "ticket_type", "Standard")]
             premium_count == Cardinality({k \in DOMAIN ticket_types :
                                              IsPremium(ticket_types[k])})
             n == Len(ticket_types)
             \* max(set(ticket_types), key=ticket_types.count): a most frequent
             \* type; among equally frequent ones the set's iteration order
             \* decides, here the one met first in the history
             first == CHOOSE k \in DOMAIN ticket_types :
                         /\ \A j \in DOMAIN ticket_types :
                               Count(ticket_types, ticket_types[j])
                                  <= Count(ticket_types, ticket_types[k])
                         /\ \A j \in 1..(k - 1) :
                               Count(ticket_types, ticket_types[j])
                                  < Count(ticket_types, ticket_types[k])
         IN  IF \E k \in DOMAIN ticket_types : ticket_types[k] = NullType
             THEN [raised |-> TypeError]
             ELSE [pattern |-> IF 10 * premium_count > 3 * n
                               THEN "High-Value" ELSE "Value-Conscious",
                   average_ticket_type |-> ticket_types[first],
                   premium_preference |-> <<premium_count, n>>]

_get_last_activity(history) ==
    IF history = << >> THEN [status |-> "No prior activity"]
    ELSE IF Len(history) >= 2
            /\ \E k \in DOMAIN history : Get(history[k], "attended_date", 0) = 0
    THEN [raised |-> CompareError]      \* max() compares a null date
    ELSE LET latest == CHOOSE k \in DOMAIN history :
                          /\ \A j \in DOMAIN history :
                                Get(history[j], "attended_date", 0)
                                   <= Get(history[k], "attended_date", 0)
                          /\ \A j \in 1..(k - 1) :
                                Get(history[j], "attended_date", 0)
                                   < Get(history[k], "attended_date", 0)
         IN  [game |-> Get(history[latest], "game_title", "Unknown"),
              date |-> Get(history[latest], "attended_date", 0),
              satisfaction |-> Get(history[latest], "satisfaction_rating", 3)]

_determine_contact_preferences(profile) ==
    [preferred_method |-> "phone", best_time |-> "evening", tone |-> "friendly"]

\* only the ratings looked at
_identify_risk_factors_rated(history, preferences) ==
    IF history /= << >>
       /\ LET recent_ratings == Ratings(Prefix(history, 3))
          IN  SumSeq(recent_ratings) < 3 * Len(recent_ratings)
    THEN <<"Recent low satisfaction">> ELSE << >>
_identify_risk_factors(history, preferences) ==
    (IF history = << >> THEN <<"No purchase history">> ELSE << >>)
    \o
    (IF history /= << >>
        /\ LET recent_ratings == Ratings(Prefix(history, 3))
           IN  SumSeq(recent_ratings) < 3 * Len(recent_ratings)
     THEN <<"Recent low satisfaction">> ELSE << >>)

\* a score that falls with every preferred category
_calculate_game_match_score_penalising(game, user_analysis) ==
    Min(5 + 3, 10) - Cardinality(Get(user_analysis, "preferred_categories", {}))
_calculate_game_match_score(game, user_analysis) == Min(5 + 3, 10)

_generate_match_reasons(game, user_analysis) ==
    <<"Matches your favorite sport", "Similar to games you've enjoyed before">>

\* "high" from 0.8 on
Priority_inclusive(score) ==
    IF score >= 8 THEN "high" ELSE IF score > 6 THEN "medium" ELSE "low"
Priority(score) ==
    IF score > 8 THEN "high" ELSE IF score > 6 THEN "medium" ELSE "low"

RECURSIVE SortByScore(_)
\* list.sort(key=match_score, reverse=True): stable, equal scores keep their order
SortByScore(s) ==
    IF s = << >> THEN << >>
    ELSE LET best == CHOOSE k \in DOMAIN s :
                        /\ \A j \in DOMAIN s : s[j].match_score <= s[k].match_score
                        /\ \A j \in 1..(k - 1) : s[j].match_score < s[k].match_score
             rest == [j \in 1..(Len(s) - 1) |-> IF j < best THEN s[j] ELSE s[j + 1]]
         IN  <<s[best]>> \o SortByScore(rest)

_suggest_opening_approach(user_analysis) ==
    LET segment == Get(user_analysis, "user_segment", "New_Prospect")
    IN  IF segment = "VIP_Fan"
        THEN "Reference their loyalty and offer exclusive opportunities"
        ELSE IF segment = "Regular_Attendee"
        THEN "Mention their attendance history and suggest similar games"
        ELSE "Focus on introducing the experience and building interest"

_generate_talking_points(user_analysis, matched_games) ==
    (IF matched_games /= << >>
     THEN << <<"Highlight the",
               Get(Get(matched_games[1].game, "properties", EmptyDict),
                   "title", "upcoming game")>> >>
     ELSE << >>)
    \o << <<"Emphasize the unique atmosphere and experience">>,
          <<"Mention any special promotions or deals">> >>

_suggest_offers(matched_games) ==
    [k \in 1..Min(Len(matched_games), 2) |->
        [game |-> matched_games[k].game,
         offer_type |-> "Standard discount", urgency |-> "Limited time"]]

_recommend_conversation_style(user_analysis) ==
    LET engagement == Get(user_analysis, "engagement_level", "Medium")
    IN  IF engagement = "High" THEN "Enthusiastic and knowledgeable"
        ELSE IF engagement = "Medium" THEN "Friendly and informative"
        ELSE "Educational and patient"

\* ------------------------------------------------------- the task harness
\* AgentStatus
IDLE == "idle"
PROCESSING == "processing"
COMPLETED == "completed"
ERROR == "error"

NoError == << >>        \* AgentResult.error = None

AgentTask(id, type, data) == [id |-> id, type |-> type, data |-> data]

\* AgentResult; __post_init__ turns a missing data into the empty dict.
\* execution_time is a wall-clock difference and is left out.
AgentResult(task_id, status, data, error) ==
    [task_id |-> task_id, agent_id |-> "data_analyst", status |-> status,
     data |-> IF data = None THEN EmptyDict ELSE data, error |-> error]

_analyze_user_profile(task) ==
    LET user_data == Get(task.data, "user_data", EmptyDict)
        profile == Get(user_data, "profile", EmptyDict)
        history == Get(user_data, "history", << >>)
        preferences == Get(user_data, "preferences", EmptyDict)
        engagement == _calculate_engagement_level(history)
        spending == _analyze_spending_pattern(history)
        last == _get_last_activity(history)
    IN  IF engagement = ZeroDivisionError
        THEN AgentResult(task.id, ERROR, None, <<ZeroDivisionError>>)
        ELSE IF "raised" \in DOMAIN spending
        THEN AgentResult(task.id, ERROR, None, <<spending.raised>>)
        ELSE IF "raised" \in DOMAIN last
        THEN AgentResult(task.id, ERROR, None, <<last.raised>>)
        ELSE AgentResult(task.id, COMPLETED,
               [analysis |->
                  [user_segment |-> _determine_user_segment(history, preferences),
                   engagement_level |-> engagement,
                   preferred_categories |->
                       _extract_preferred_categories(history, preferences),
                   spending_pattern |-> spending,
                   last_activity |-> last,
                   contact_preferences |-> _determine_contact_preferences(profile),
                   risk_factors |-> _identify_risk_factors(history, preferences)]],
               NoError)

\* the five matches at the end of the sorted list kept
_match_games_to_user_last_five(task) ==
    LET user_analysis == Get(task.data, "user_analysis", EmptyDict)
        available_games == Get(task.data, "available_games", << >>)
        matched_games ==
            [k \in 1..Len(available_games) |->
                LET score == _calculate_game_match_score(available_games[k], user_analysis)
                IN  [game |-> available_games[k],
                     match_score |-> score,
                     reasons |-> _generate_match_reasons(available_games[k], user_analysis),
                     priority |-> Priority(score)]]
        sorted == SortByScore(matched_games)
    IN  AgentResult(task.id, COMPLETED,
                    [matched_games |->
                        IF Len(sorted) <= 5 THEN sorted
                        ELSE SubSeq(sorted, Len(sorted) - 4, Len(sorted))], NoError)
_match_games_to_user(task) ==
    LET user_analysis == Get(task.data, "user_analysis", EmptyDict)
        available_games == Get(task.data, "available_games", << >>)
        matched_games ==
            [k \in 1..Len(available_games) |->
                LET score == _calculate_game_match_score(available_games[k], user_analysis)
                IN  [game |-> available_games[k],
                     match_score |-> score,
                     reasons |-> _generate_match_reasons(available_games[k], user_analysis),
                     priority |-> Priority(score)]]
    IN  AgentResult(task.id, COMPLETED,
                    [matched_games |-> Prefix(SortByScore(matched_games), 5)], NoError)

_generate_conversation_insights(task) ==
    LET user_analysis == Get(task.data, "user_analysis", EmptyDict)
        matched_games == Get(task.data, "matched_games", << >>)
    IN  AgentResult(task.id, COMPLETED,
          [insights |->
             [opening_approach |-> _suggest_opening_approach(user_analysis),
              key_talking_points |-> _generate_talking_points(user_analysis, matched_games),
              potential_objections |-> <<"Price concerns", "Schedule conflicts">>,
              recommended_offers |-> _suggest_offers(matched_games),
              conversation_style |-> _recommend_conversation_style(user_analysis),
              best_contact_time |-> "Early evening (6-8 PM)",
              follow_up_strategy |-> "24-48 hours if interested, 1 week if undecided"]],
          NoError)

\* the dispatch taking an unregistered type for done
process_task_unknown_completed(task) ==
    IF task.type = "analyze_user_profile" THEN _analyze_user_profile(task)
    ELSE IF task.type = "match_games_to_user" THEN _match_games_to_user(task)
    ELSE IF task.type = "generate_conversation_insights"
         THEN _generate_conversation_insights(task)
    ELSE AgentResult(task.id, COMPLETED, EmptyDict, NoError)
\* the dispatch failing an unregistered type without a message
process_task_unknown_silent(task) ==
    IF task.type = "analyze_user_profile" THEN _analyze_user_profile(task)
    ELSE IF task.type = "match_games_to_user" THEN _match_games_to_user(task)
    ELSE IF task.type = "generate_conversation_insights"
         THEN _generate_conversation_insights(task)
    ELSE AgentResult(task.id, ERROR, None, NoError)
\* DataAnalystAgent.process_task: dispatch on the task type
process_task(task) ==
    IF task.type = "analyze_user_profile" THEN _analyze_user_profile(task)
    ELSE IF task.type = "match_games_to_user" THEN _match_games_to_user(task)
    ELSE IF task.type = "generate_conversation_insights"
         THEN _generate_conversation_insights(task)
    ELSE AgentResult(task.id, ERROR, None, <<"Unknown task type:", task.type>>)

\* ------------------------------------------------------ the vector store
\* The objects of the Games collection.
AllGames ==
    << [id |-> "g1", properties |-> [title |-> "Giants vs Dodgers", team |-> "Giants",
                                     sport |-> "baseball"]],
       [id |-> "g2", properties |-> [title |-> "Warriors vs Lakers", team |-> "Warriors",
                                     sport |-> "basketball"]] >>

OneGame == <<AllGames[1]>>

Collections == {<< >>, OneGame, AllGames}

\* The search queries _gather_game_data builds.
TeamQuery(team) == <<"games", team>>
SportQuery(sport) == <<sport, "games tickets">>
UpcomingQuery == <<"upcoming games schedule">>

Near(query, obj) ==
    \E k \in DOMAIN query : query[k] \in {obj.properties.team, obj.properties.sport}

\* games.query.near_text(query, limit): the objects nearest to the query first,
\* each with the score of this query
near_text(collection, query, limit) ==
    LET IsNear(o) == Near(query, o)
        IsFar(o) == ~Near(query, o)
        ranked == Prefix(SelectSeq(collection, IsNear) \o SelectSeq(collection, IsFar),
                         limit)
    IN  [k \in 1..Len(ranked) |->
            [id |-> ranked[k].id, properties |-> ranked[k].properties,
             score |-> <<query, k>>]]

\* Outcome of one search request: the collection answers ("hit"), the query
\* fails inside WeaviateClient.search_games, which logs it and returns []
\* ("error"), or an exception leaves the client ("raise").
SearchOutcomes == {"hit", "error", "raise"}

search_games(collection, query, limit, outcome) ==
    IF outcome = "hit" THEN near_text(collection, query, limit) ELSE << >>

\* ------------------------------------------------------ the call provider
\* What the provider answers to POST /call/phone: a status code with a JSON
\* body, or no answer at all (the transport raises).
Responses ==
    { [status_code |-> 201, json |-> [id |-> "call-1", status |-> "queued"]],
      [status_code |-> 201, json |-> [status |-> "queued"]],
      [status_code |-> 200, json |-> [id |-> "call-1", status |-> "queued"]],
      [status_code |-> 500, json |-> [message |-> "server error"]],
      [raised |-> "ConnectError"] }

\* make_call without its status check: every answered request returns the body
make_call_unchecked_status(phone_number, assistant_config, response) ==
    IF "raised" \in DOMAIN response
    THEN [error |-> <<response.raised>>]
    ELSE response.json

\* VAPIClient.make_call
make_call(phone_number, assistant_config, response) ==
    IF "raised" \in DOMAIN response
    THEN [error |-> <<response.raised>>]
    ELSE IF response.status_code = 201
    THEN response.json
    ELSE [error |-> <<"Failed to initiate call:", ToString(response.status_code)>>]

\* VAPIClient.create_call_context: the context is kept as its number of lines
\* ', '.join(names) raises TypeError on a name that is not a str
JoinError == "sequence item 0: expected str instance, int found"

Joinable(names) == \A k \in DOMAIN names : names[k] /= NumberName

create_call_context(user_data, game_data) ==
    LET prefs == Get(user_data, "preferences", EmptyDict)
    IN  IF DOMAIN prefs /= {}
           /\ ~(/\ Joinable(Get(prefs, "favorite_teams", << >>))
                /\ Joinable(Get(prefs, "favorite_sports", << >>)))
        THEN [raised |-> JoinError]
        ELSE [value |->
                7
                + (IF Get(user_data, "profile", None) /= None THEN 3 ELSE 0)
                + (IF DOMAIN prefs /= {} THEN 4 ELSE 0)
                + (IF Get(user_data, "history", << >>) /= << >>
                   THEN 2 + Min(3, Len(user_data.history)) ELSE 0)
                + (IF game_data /= << >> THEN 2 + Min(2, Len(game_data)) ELSE 0)
                + 9]

\* VAPIClient.create_assistant
create_assistant(context) ==
    [model |-> [provider |-> "openai", systemMessage |-> context],
     recordingEnabled |-> TRUE]

\* ------------------------------------------------------- AgentOrchestrator
VARIABLES
    collection,        \* the objects of the Games collection (vector store)
    interactions,      \* the Interaction nodes recorded in the graph store
    clock,             \* asyncio.get_event_loop().time()
    status,            \* data_analyst.status
    results_cache,     \* data_analyst.results_cache
    harness_writers,   \* the pipeline instances that have written the two above
    bpc,               \* position of batch_process_calls
    user_list,         \* its argument
    run,               \* one process_sales_call coroutine per request
    batch_result,      \* its return value
    CALL_STATE,        \* vapi_integration.CALL_STATE
    inflight,          \* webhook requests whose body has been read
    handled,           \* the webhook requests answered so far, in order
    returned,          \* what the last operation called on its own returned
    completed,         \* per task id, the last result execute_task returned as
                       \* completed since the cache was last cleared
    given              \* the arguments drawn for an operation called on its own

vars == <<collection, interactions, clock, status, results_cache, harness_writers,
          bpc, user_list, run, batch_result, CALL_STATE, inflight, handled, returned,
          completed, given>>

unit_vars == <<returned, completed, given>>

aggregator_vars == <<CALL_STATE, inflight, handled>>

pipeline_vars == <<collection, interactions, clock, harness_writers,
                   bpc, user_list, run, batch_result>>

Runs == DOMAIN run

Call(op, arg) == [op |-> op, arg |-> arg]

\* _gather_user_data reading a missing profile a second time before giving up
_gather_user_data_retrying(user_id) ==
    LET profile == get_user_profile(user_id)
    IN  IF profile = None
        THEN [value |-> None,
              calls |-> <<Call("get_user_profile", <<user_id>>),
                          Call("get_user_profile", <<user_id>>)>>,
              log |-> {"No profile found for user"}]
        ELSE [value |-> [profile |-> profile,
                         history |-> get_user_game_history(user_id, 20),
                         preferences |-> get_user_preferences(user_id),
                         similar_users |-> get_similar_users(user_id, 5)],
              calls |-> <<Call("get_user_profile", <<user_id>>),
                          Call("get_user_game_history", <<user_id>>),
                          Call("get_user_preferences", <<user_id>>),
                          Call("get_similar_users", <<user_id>>)>>,
              log |-> {}]

\* AgentOrchestrator._gather_user_data
_gather_user_data(user_id) ==
    LET profile == get_user_profile(user_id)
    IN  IF profile = None
        THEN [value |-> None,
              calls |-> <<Call("get_user_profile", <<user_id>>)>>,
              log |-> {"No profile found for user"}]
        ELSE [value |-> [profile |-> profile,
                         history |-> get_user_game_history(user_id, 20),
                         preferences |-> get_user_preferences(user_id),
                         similar_users |-> get_similar_users(user_id, 5)],
              calls |-> <<Call("get_user_profile", <<user_id>>),
                          Call("get_user_game_history", <<user_id>>),
                          Call("get_user_preferences", <<user_id>>),
                          Call("get_similar_users", <<user_id>>)>>,
              log |-> {}]

\* the search queries of _gather_game_data, in the order they are issued
SearchQueries(user_data) ==
    LET preferences == Get(user_data, "preferences", EmptyDict)
        favorite_teams == Prefix(Get(preferences, "favorite_teams", << >>), 3)
        favorite_sports == Prefix(Get(preferences, "favorite_sports", << >>), 2)
    IN  [k \in 1..Len(favorite_teams) |-> TeamQuery(favorite_teams[k])]
        \o [k \in 1..Len(favorite_sports) |-> SportQuery(favorite_sports[k])]
        \o <<UpcomingQuery>>

RECURSIVE Unique(_)
\* {game["id"]: game for game in all_games}: an id keeps the place of its first
\* game and the value of its last
Unique(all_games) ==
    IF all_games = << >> THEN << >>
    ELSE LET seen == Unique(SubSeq(all_games, 1, Len(all_games) - 1))
             game == all_games[Len(all_games)]
         IN  IF \E k \in DOMAIN seen : seen[k].id = game.id
             THEN [k \in DOMAIN seen |-> IF seen[k].id = game.id THEN game ELSE seen[k]]
             ELSE Append(seen, game)

RECURSIVE Extend(_, _, _)
\* all_games after the search loop over queries 1..n
Extend(coll, queries, outcomes) ==
    IF queries = << >> THEN << >>
    ELSE Extend(coll, SubSeq(queries, 1, Len(queries) - 1),
                SubSeq(outcomes, 1, Len(queries) - 1))
         \o search_games(coll, queries[Len(queries)], 5, outcomes[Len(queries)])

\* the games gathered before the search that raised are returned
_gather_game_data_keeping(coll, user_data, outcomes) ==
    LET search_queries == SearchQueries(user_data)
        n == Len(search_queries)
        raising == {k \in 1..n : outcomes[k] = "raise"}
        last == IF raising = {} THEN n
                ELSE CHOOSE k \in raising : \A j \in raising : k <= j
        errors == IF \E k \in 1..last : outcomes[k] = "error"
                  THEN {"Error searching games"} ELSE {}
    IN  [value |-> Prefix(Unique(Extend(coll, SubSeq(search_queries, 1, last),
                                        SubSeq(outcomes, 1, last))), 10),
         calls |-> [k \in 1..last |-> Call("search_games", search_queries[k])],
         log |-> errors \cup (IF raising = {} THEN {}
                              ELSE {"Error gathering game data"})]
\* every unique game returned
_gather_game_data_uncapped(coll, user_data, outcomes) ==
    LET search_queries == SearchQueries(user_data)
        n == Len(search_queries)
        raising == {k \in 1..n : outcomes[k] = "raise"}
        last == IF raising = {} THEN n
                ELSE CHOOSE k \in raising : \A j \in raising : k <= j
    IN  [value |-> IF raising = {}
                   THEN Unique(Extend(coll, search_queries, outcomes))
                   ELSE << >>,
         calls |-> [k \in 1..last |-> Call("search_games", search_queries[k])],
         log |-> {}]
\* AgentOrchestrator._gather_game_data; outcomes[k] is what the k-th search does
_gather_game_data(coll, user_data, outcomes) ==
    LET search_queries == SearchQueries(user_data)
        n == Len(search_queries)
        raising == {k \in 1..n : outcomes[k] = "raise"}
        last == IF raising = {} THEN n
                ELSE CHOOSE k \in raising : \A j \in raising : k <= j
        errors == IF \E k \in 1..last : outcomes[k] = "error"
                  THEN {"Error searching games"} ELSE {}
    IN  [value |-> IF raising = {}
                   THEN Prefix(Unique(Extend(coll, search_queries, outcomes)), 10)
                   ELSE << >>,
         calls |-> [k \in 1..last |-> Call("search_games", search_queries[k])],
         log |-> errors \cup (IF raising = {} THEN {}
                              ELSE {"Error gathering game data"})]

Put(cache, key, value) ==
    [k \in DOMAIN cache \cup {key} |-> IF k = key THEN value ELSE cache[k]]

\* every result stored, whatever its status
BaseAgent_execute_task_caching_all(cache, task, outcome) ==
    LET result == IF "raised" \in DOMAIN outcome
                  THEN AgentResult(task.id, ERROR, None,
                                   <<"Agent Data Analyst Agent failed task",
                                     task.id, outcome.raised>>)
                  ELSE outcome
    IN  [result |-> result,
         status |-> IF "raised" \in DOMAIN outcome THEN ERROR ELSE COMPLETED,
         cache |-> Put(cache, task.id, result)]
\* the except branch letting the exception through
BaseAgent_execute_task_propagating(cache, task, outcome) ==
    IF "raised" \in DOMAIN outcome
    THEN [result |-> outcome, status |-> PROCESSING, cache |-> cache]
    ELSE [result |-> outcome,
          status |-> COMPLETED,
          cache |-> IF outcome.status = COMPLETED
                    THEN Put(cache, task.id, outcome) ELSE cache]
\* BaseAgent.execute_task, for the outcome of `await self.process_task(task)`
\* (an AgentResult, or [raised |-> e] when process_task raises): the result
\* returned, with the status the harness is left in and its cache.
\* process_task runs without suspending, so the status "processing" is never
\* seen by another coroutine.
BaseAgent_execute_task(cache, task, outcome) ==
    IF "raised" \in DOMAIN outcome
    THEN [result |-> AgentResult(task.id, ERROR, None,
                                 <<"Agent Data Analyst Agent failed task",
                                   task.id, outcome.raised>>),
          status |-> ERROR,
          cache |-> cache]
    ELSE [result |-> outcome,
          status |-> COMPLETED,
          cache |-> IF outcome.status = COMPLETED
                    THEN Put(cache, task.id, outcome) ELSE cache]

\* execute_task of the orchestrator's DataAnalystAgent
execute_task(cache, task) == BaseAgent_execute_task(cache, task, process_task(task))

\* the value the three task wrappers of the orchestrator hand back
TaskValue(result) == IF result.status = COMPLETED THEN result.data ELSE None

TaskLog(result, tag) == IF result.status = COMPLETED THEN {} ELSE {tag}

\* AgentOrchestrator._analyze_user_profile: the task it builds
analyze_task(now, user_data) ==
    AgentTask(<<"analyze_profile", now>>, "analyze_user_profile",
              [user_data |-> user_data])

\* AgentOrchestrator._match_games_to_user: the task it builds
match_task(now, user_analysis, game_data) ==
    AgentTask(<<"match_games", now>>, "match_games_to_user",
              [user_analysis |-> user_analysis, available_games |-> game_data])

\* AgentOrchestrator._generate_conversation_insights: the task it builds
insights_task(now, user_analysis, game_matches) ==
    AgentTask(<<"conversation_insights", now>>, "generate_conversation_insights",
              [user_analysis |-> user_analysis,
               matched_games |-> Get(game_matches, "matched_games", << >>)])

\* `not x` for a dict or None
Falsy(x) == x = None \/ DOMAIN x = {}

\* process_sales_call, lines 63-64, 71-72, 76-77, 81-82: the error a stage's
\* empty result is answered with, None when the run goes on
\* step 1 without its check
user_data_error_unchecked(user_id, user_data) == None

user_data_error(user_id, user_data) ==
    IF Falsy(user_data)
    THEN [error |-> <<"Could not retrieve data for user", user_id>>] ELSE None

\* step 3 without its check
user_analysis_error_unchecked(user_id, user_analysis) == None

\* step 3 answering with the message of step 4
user_analysis_error_miscopied(user_id, user_analysis) ==
    IF Falsy(user_analysis)
    THEN [error |-> <<"Failed to match games to user">>] ELSE None

user_analysis_error(user_id, user_analysis) ==
    IF Falsy(user_analysis)
    THEN [error |-> <<"Failed to analyze user profile">>] ELSE None

\* step 4 taking an empty list of matches for a failure
game_matches_error_strict(user_id, game_matches) ==
    IF Falsy(game_matches) \/ Get(game_matches, "matched_games", << >>) = << >>
    THEN [error |-> <<"Failed to match games to user">>] ELSE None

game_matches_error(user_id, game_matches) ==
    IF Falsy(game_matches)
    THEN [error |-> <<"Failed to match games to user">>] ELSE None

conversation_insights_error(user_id, conversation_insights) ==
    IF Falsy(conversation_insights)
    THEN [error |-> <<"Failed to generate conversation insights">>] ELSE None

UserSegment(user_analysis) ==
    Get(Get(user_analysis, "analysis", EmptyDict), "user_segment", "null")

\* AgentOrchestrator._make_sales_call
_make_sales_call(user_id, phone_number, call_context, response) ==
    LET matched == Get(call_context.game_matches, "matched_games", << >>)
        context == create_call_context(call_context.user_data, matched)
    IN  IF "raised" \in DOMAIN context
        THEN [error |-> <<context.raised>>]
        ELSE LET assistant_config == create_assistant(context.value)
             IN  [call_data |-> make_call(phone_number, assistant_config, response),
                  context_used |-> context.value,
                  games_promoted |-> Len(matched),
                  user_segment |-> UserSegment(call_context.user_analysis)]

\* Outcome of Neo4jClient.record_interaction: the node is created ("ok"), the
\* query fails inside the client, which logs it and returns False ("false"),
\* or an exception leaves the client ("raise").
RecordOutcomes == {"ok", "false", "raise"}

\* _record_interaction without its handler: the client's exception goes on
_record_interaction_propagating(user_id, call_result, now, outcome) ==
    [created |-> IF outcome = "ok"
                 THEN {[user_id |-> user_id, type |-> "sales_call",
                        details |-> [call_id |-> "null", timestamp |-> now]]}
                 ELSE {},
     log |-> IF outcome = "false" THEN {"Error recording interaction for user"} ELSE {},
     raised |-> IF outcome = "raise" THEN <<"record_interaction raised">> ELSE << >>]

\* only a call that has an id recorded
_record_interaction_initiated_only(user_id, call_result, now, outcome) ==
    LET call_id == Get(Get(call_result, "call_data", EmptyDict), "id", "null")
    IN  [created |-> IF outcome = "ok" /\ call_id /= "null"
                     THEN {[user_id |-> user_id, type |-> "sales_call",
                            details |-> [call_id |-> call_id,
                                         games_promoted |-> Get(call_result, "games_promoted", 0),
                                         user_segment |-> Get(call_result, "user_segment", "null"),
                                         context_size |-> Get(call_result, "context_used", 0),
                                         timestamp |-> now]]}
                     ELSE {},
         log |-> IF outcome = "ok" THEN {}
                 ELSE IF outcome = "false"
                 THEN {"Error recording interaction for user"}
                 ELSE {"Error recording interaction"},
         raised |-> << >>]
\* AgentOrchestrator._record_interaction: the nodes it adds to the graph
\* store, what it logs and the exception it lets through (none)
_record_interaction(user_id, call_result, now, outcome) ==
    LET interaction_details ==
            [call_id |-> Get(Get(call_result, "call_data", EmptyDict), "id", "null"),
             games_promoted |-> Get(call_result, "games_promoted", 0),
             user_segment |-> Get(call_result, "user_segment", "null"),
             context_size |-> Get(call_result, "context_used", 0),
             timestamp |-> now]
    IN  [created |-> IF outcome = "ok"
                     THEN {[user_id |-> user_id, type |-> "sales_call",
                            details |-> interaction_details]}
                     ELSE {},
         log |-> IF outcome = "ok" THEN {}
                 ELSE IF outcome = "false"
                 THEN {"Error recording interaction for user"}
                 ELSE {"Error recording interaction"},
         raised |-> << >>]

\* success following call_initiated
sales_call_result_initiated_only(user_id, user_analysis, game_matches, call_result, raised) ==
    IF raised /= << >>
    THEN [error |-> <<"Error in sales call process for user", user_id>> \o raised]
    ELSE LET call_initiated == "id" \in DOMAIN Get(call_result, "call_data", EmptyDict)
         IN  [success |-> call_initiated,
              user_id |-> user_id,
              call_result |-> call_result,
              summary |->
                 [user_segment |-> UserSegment(user_analysis),
                  games_recommended |-> Len(Get(game_matches, "matched_games", << >>)),
                  call_initiated |-> call_initiated]]
\* process_sales_call, lines 97-111: the value returned after the last stage;
\* raised is the exception that reached the outer handler, << >> for none
sales_call_result(user_id, user_analysis, game_matches, call_result, raised) ==
    IF raised /= << >>
    THEN [error |-> <<"Error in sales call process for user", user_id>> \o raised]
    ELSE [success |-> TRUE,
          user_id |-> user_id,
          call_result |-> call_result,
          summary |->
             [user_segment |-> UserSegment(user_analysis),
              games_recommended |-> Len(Get(game_matches, "matched_games", << >>)),
              call_initiated |->
                 "id" \in DOMAIN Get(call_result, "call_data", EmptyDict)]]

\* ------------------------------------------------------------ the actions
Requests == [user_id : Users, phone_number : {Phone(u) : u \in Users}]

RECURSIVE SeqsUpTo(_, _)
SeqsUpTo(S, n) ==
    IF n = 0 THEN {<< >>}
    ELSE LET shorter == SeqsUpTo(S, n - 1)
         IN  shorter \cup {Append(q, x) : q \in shorter, x \in S}

UserLists == SeqsUpTo(Requests, MaxBatch)

\* a process_sales_call coroutine that has not run yet
NewRun(user) ==
    [pc |-> "gather_user",
     user_id |-> user.user_id,
     phone_number |-> user.phone_number,
     user_data |-> None,
     game_data |-> << >>,
     user_analysis |-> None,
     game_matches |-> None,
     conversation_insights |-> None,
     call_result |-> None,
     searches |-> << >>,    \* what each search request did
     response |-> None,     \* what the call provider answered
     result |-> None,
     calls |-> << >>,       \* the requests made to the collaborators and the harness
     tasks |-> << >>,       \* the ids of the tasks created, in order
     log |-> {}]            \* the warnings and errors logged

Init ==
    /\ collection \in Collections
    /\ interactions = {}
    /\ clock = 0
    /\ status = IDLE
    /\ results_cache = EmptyDict
    /\ harness_writers = {}
    /\ bpc = "idle"
    /\ user_list = << >>
    /\ run = << >>
    /\ batch_result = None
    /\ CALL_STATE = EmptyDict
    /\ inflight = << >>
    /\ handled = << >>
    /\ returned = None
    /\ completed = EmptyDict
    /\ given = None

\* The event loop's clock advances.
Tick ==
    /\ run /= << >>
    /\ clock < MaxClock
    /\ clock' = clock + 1
    /\ UNCHANGED <<aggregator_vars, unit_vars>>
    /\ UNCHANGED <<collection, interactions, status, results_cache, harness_writers,
                   bpc, user_list, run, batch_result>>

\* process_sales_call called for one request (scripts/sample_call.py)
ProcessSalesCall(user) ==
    /\ bpc = "idle" /\ run = << >>
    /\ run' = <<NewRun(user)>>
    /\ UNCHANGED <<aggregator_vars, unit_vars>>
    /\ UNCHANGED <<collection, interactions, clock, status, results_cache,
                   harness_writers, bpc, user_list, batch_result>>

\* batch_process_calls, lines 301-310: one coroutine per request, all started
BatchProcessCalls(list) ==
    /\ bpc = "idle" /\ run = << >>
    /\ user_list' = list
    /\ run' = [i \in 1..Len(list) |-> NewRun(list[i])]
    /\ bpc' = "gather"
    /\ UNCHANGED <<aggregator_vars, unit_vars>>
    /\ UNCHANGED <<collection, interactions, clock, status, results_cache,
                   harness_writers, batch_result>>

Goto(i, next, fields) ==
    run' = [run EXCEPT ![i] =
              [f \in DOMAIN @ |-> IF f = "pc" THEN next
                                  ELSE IF f \in DOMAIN fields THEN fields[f] ELSE @[f]]]

\* process_sales_call, step 1
GatherUserData(i) ==
    /\ run[i].pc = "gather_user"
    /\ LET r == run[i]
           got == _gather_user_data(r.user_id)
           err == user_data_error(r.user_id, got.value)
       IN  Goto(i, IF err = None THEN "gather_games" ELSE "done",
                [user_data |-> got.value,
                 result |-> err,
                 calls |-> r.calls \o got.calls,
                 log |-> r.log \cup got.log])
    /\ UNCHANGED <<aggregator_vars, unit_vars>>
    /\ UNCHANGED <<collection, interactions, clock, status, results_cache,
                   harness_writers, bpc, user_list, batch_result>>

\* process_sales_call, step 2
GatherGameData(i, Outcomes) ==
    /\ run[i].pc = "gather_games"
    /\ LET r == run[i]
       IN  \E outcomes \in [1..Len(SearchQueries(r.user_data)) -> Outcomes] :
              LET got == _gather_game_data(collection, r.user_data, outcomes)
              IN  Goto(i, "analyze",
                       [game_data |-> got.value,
                        searches |-> SubSeq(outcomes, 1, Len(got.calls)),
                        calls |-> r.calls \o got.calls,
                        log |-> r.log \cup got.log])
    /\ UNCHANGED <<aggregator_vars, unit_vars>>
    /\ UNCHANGED <<collection, interactions, clock, status, results_cache,
                   harness_writers, bpc, user_list, batch_result>>

\* one of the three task stages: the task runs on the shared data analyst
RunTask(i, task, field, tag, Error(_, _), next) ==
    LET r == run[i]
        done == execute_task(results_cache, task)
        value == TaskValue(done.result)
        err == Error(r.user_id, value)
    IN  /\ status' = done.status
        /\ results_cache' = done.cache
        /\ harness_writers' = harness_writers \cup {i}
        /\ Goto(i, IF err = None THEN next ELSE "done",
                (field :> value) @@
                [result |-> err,
                 calls |-> Append(r.calls, Call("execute_task", <<task.type>>)),
                 tasks |-> Append(r.tasks, task.id),
                 log |-> r.log \cup TaskLog(done.result, tag)])

\* process_sales_call, step 3
AnalyzeUserProfile(i) ==
    /\ run[i].pc = "analyze"
    /\ RunTask(i, analyze_task(clock, run[i].user_data), "user_analysis",
               "User analysis failed", user_analysis_error, "match")
    /\ UNCHANGED <<aggregator_vars, unit_vars>>
    /\ UNCHANGED <<collection, interactions, clock, bpc, user_list, batch_result>>

\* process_sales_call, step 4
MatchGamesToUser(i) ==
    /\ run[i].pc = "match"
    /\ RunTask(i, match_task(clock, run[i].user_analysis, run[i].game_data),
               "game_matches", "Game matching failed", game_matches_error, "insights")
    /\ UNCHANGED <<aggregator_vars, unit_vars>>
    /\ UNCHANGED <<collection, interactions, clock, bpc, user_list, batch_result>>

\* process_sales_call, step 5
GenerateConversationInsights(i) ==
    /\ run[i].pc = "insights"
    /\ RunTask(i, insights_task(clock, run[i].user_analysis, run[i].game_matches),
               "conversation_insights", "Conversation insights generation failed",
               conversation_insights_error, "call")
    /\ UNCHANGED <<aggregator_vars, unit_vars>>
    /\ UNCHANGED <<collection, interactions, clock, bpc, user_list, batch_result>>

\* process_sales_call, step 6
MakeSalesCall(i, Answers) ==
    /\ run[i].pc = "call"
    /\ LET r == run[i]
       IN  \E response \in Answers :
              LET call_result ==
                      _make_sales_call(r.user_id, r.phone_number,
                         [user_data |-> r.user_data,
                          user_analysis |-> r.user_analysis,
                          game_matches |-> r.game_matches,
                          insights |-> r.conversation_insights], response)
              IN  IF "error" \in DOMAIN call_result
                  THEN \* the context could not be built: no request is made
                       Goto(i, "record",
                            [call_result |-> call_result,
                             log |-> r.log \cup {"Error making sales call"}])
                  ELSE Goto(i, "record",
                            [call_result |-> call_result,
                             response |-> response,
                             calls |-> Append(r.calls, Call("make_call", <<r.phone_number>>)),
                             log |-> r.log \cup
                                     (IF "raised" \in DOMAIN response
                                      THEN {"Error making call"}
                                      ELSE IF response.status_code /= 201
                                      THEN {"Failed to initiate call"} ELSE {})])
    /\ UNCHANGED <<aggregator_vars, unit_vars>>
    /\ UNCHANGED <<collection, interactions, clock, status, results_cache,
                   harness_writers, bpc, user_list, batch_result>>

\* process_sales_call, step 7 and the return
RecordInteraction(i, Outcomes) ==
    /\ run[i].pc = "record"
    /\ LET r == run[i]
       IN  \E outcome \in Outcomes :
              LET rec == _record_interaction(r.user_id, r.call_result, clock, outcome)
              IN  /\ interactions' = interactions \cup rec.created
                  /\ Goto(i, "done",
                          [result |-> sales_call_result(r.user_id, r.user_analysis,
                                         r.game_matches, r.call_result, rec.raised),
                           calls |-> Append(r.calls,
                                       Call("record_interaction", <<r.user_id, outcome>>)),
                           log |-> r.log \cup rec.log])
    /\ UNCHANGED <<aggregator_vars, unit_vars>>
    /\ UNCHANGED <<collection, clock, status, results_cache, harness_writers,
                   bpc, user_list, batch_result>>

Indices(n) == [k \in 1..n |-> k]

\* the fan-in naming the failed requests by their place among the failures
batch_results_misindexed(list, results) ==
    LET Succeeded(k) == Get(results[k], "success", FALSE)
        Failed(k) == ~Succeeded(k)
        ok == SelectSeq(Indices(Len(results)), Succeeded)
        ko == SelectSeq(Indices(Len(results)), Failed)
    IN  [successful_calls |-> [j \in 1..Len(ok) |-> results[ok[j]]],
         failed_calls |-> [j \in 1..Len(ko) |->
                              [user_id |-> list[j].user_id,
                               error |-> Get(results[ko[j]], "error", <<"Unknown error">>)]],
         summary |-> [total |-> Len(list), successful |-> Len(ok), failed |-> Len(ko)]]

\* batch_process_calls, lines 312-340: results[i] is what coroutine i returned,
\* or the exception it raised as [raised |-> message]
batch_results(list, results) ==
    LET IsException(k) == "raised" \in DOMAIN results[k]
        Succeeded(k) == ~IsException(k) /\ Get(results[k], "success", FALSE)
        Failed(k) == ~Succeeded(k)
        ok == SelectSeq(Indices(Len(results)), Succeeded)
        ko == SelectSeq(Indices(Len(results)), Failed)
        successful_calls == [j \in 1..Len(ok) |-> results[ok[j]]]
        failed_calls ==
            [j \in 1..Len(ko) |->
                [user_id |-> list[ko[j]].user_id,
                 error |-> IF IsException(ko[j]) THEN <<results[ko[j]].raised>>
                           ELSE Get(results[ko[j]], "error", <<"Unknown error">>)]]
    IN  [successful_calls |-> successful_calls,
         failed_calls |-> failed_calls,
         summary |-> [total |-> Len(list),
                      successful |-> Len(successful_calls),
                      failed |-> Len(failed_calls)]]

\* asyncio.gather(*tasks, return_exceptions=True): true once every coroutine
\* has returned
gathered(runs) == \A i \in DOMAIN runs : runs[i].pc = "done"

\* batch_process_calls, lines 310-340: the fan-in
BatchGather ==
    /\ bpc = "gather"
    /\ gathered(run)
    /\ batch_result' = batch_results(user_list, [i \in DOMAIN run |-> run[i].result])
    /\ bpc' = "done"
    /\ UNCHANGED <<aggregator_vars, unit_vars>>
    /\ UNCHANGED <<collection, interactions, clock, status, results_cache,
                   harness_writers, user_list, run>>

\* One call request, with every outcome of the collaborators.
Next ==
    \/ Tick
    \/ \E user \in Requests : ProcessSalesCall(user)
    \/ \E i \in Runs : GatherUserData(i)
    \/ \E i \in Runs : GatherGameData(i, SearchOutcomes)
    \/ \E i \in Runs : AnalyzeUserProfile(i)
    \/ \E i \in Runs : MatchGamesToUser(i)
    \/ \E i \in Runs : GenerateConversationInsights(i)
    \/ \E i \in Runs : MakeSalesCall(i, Responses)
    \/ \E i \in Runs : RecordInteraction(i, RecordOutcomes)

Spec == Init /\ [][Next]_vars

\* A batch of up to MaxBatch requests over a filled collection.  The searches
\* answer, the provider accepts the call or refuses it, and the graph store
\* records the interaction.
BatchResponses == {a \in Responses : "status_code" \in DOMAIN a /\ "id" \in DOMAIN a.json}
                  \cup {a \in Responses : "status_code" \in DOMAIN a /\ a.status_code = 500}

NextBatch ==
    \/ Tick
    \/ \E list \in UserLists : BatchProcessCalls(list)
    \/ \E i \in Runs : GatherUserData(i)
    \/ \E i \in Runs : GatherGameData(i, {"hit"})
    \/ \E i \in Runs : AnalyzeUserProfile(i)
    \/ \E i \in Runs : MatchGamesToUser(i)
    \/ \E i \in Runs : GenerateConversationInsights(i)
    \/ \E i \in Runs : MakeSalesCall(i, BatchResponses)
    \/ \E i \in Runs : RecordInteraction(i, {"ok"})
    \/ BatchGather

InitBatch == Init /\ collection = AllGames

SpecBatch == InitBatch /\ [][NextBatch]_vars

\* --------------------------------------------- the call outcome aggregator
\* vapi_integration.py.  A text (transcript, message content) is a sequence of
\* characters; event names, call ids and summaries are only tested for
\* emptiness and equality and stay strings.
Whitespace == {" ", "\t", "\n", "\r"}

UpperCase == <<"A", "B", "C", "D", "E", "F", "G", "H", "I", "J", "K", "L", "M",
               "N", "O", "P", "Q", "R", "S", "T", "U", "V", "W", "X", "Y", "Z">>

LowerCase == <<"a", "b", "c", "d", "e", "f", "g", "h", "i", "j", "k", "l", "m",
               "n", "o", "p", "q", "r", "s", "t", "u", "v", "w", "x", "y", "z">>

\* str.lower
lower(text) ==
    [k \in DOMAIN text |->
        IF \E u \in DOMAIN UpperCase : UpperCase[u] = text[k]
        THEN LowerCase[CHOOSE u \in DOMAIN UpperCase : UpperCase[u] = text[k]]
        ELSE text[k]]

StartsAt(text, i, word) ==
    /\ i + Len(word) - 1 <= Len(text)
    /\ \A k \in DOMAIN word : text[i + k - 1] = word[k]

\* `word in text`
Contains(word, text) == \E i \in 1..(Len(text) + 1) : StartsAt(text, i, word)

\* the pattern https?://\S+
Schemes == {<<"h", "t", "t", "p", ":", "/", "/">>,
            <<"h", "t", "t", "p", "s", ":", "/", "/">>}

\* re.search(r"https?://\S+", text or "")
extract_link(text) ==
    \E i \in DOMAIN text : \E scheme \in Schemes :
        /\ StartsAt(text, i, scheme)
        /\ i + Len(scheme) <= Len(text)
        /\ text[i + Len(scheme)] \notin Whitespace

ticket == <<"t", "i", "c", "k", "e", "t">>
single_game == <<"s", "i", "n", "g", "l", "e", "-", "g", "a", "m", "e">>

\* `a or b` for two strings (a missing key and None count as "") and for two texts
OrStr(a, b) == IF a /= "" THEN a ELSE b

OrText(a, b) == IF a /= << >> THEN a ELSE b

\* isinstance(m, dict): a message that is no dict is written [str |-> text]
IsDict(m) == "str" \notin DOMAIN m

TerminalEvents == {"call.ended", "ended", "call.completed"}

NewCallState == [transcript |-> << >>, link_sent |-> FALSE, summary |-> ""]

\* what the server answers when the handler raises
InternalServerError == [status_code |-> 500]

\* the store forgetting the entry it has for the call id
setdefault_fresh(state, call_id) == Put(state, call_id, NewCallState)
\* CALL_STATE.setdefault(call_id, {...}), line 87
setdefault(state, call_id) ==
    IF call_id \in DOMAIN state THEN state ELSE Put(state, call_id, NewCallState)

\* link_sent following the last transcript
apply_transcript_resetting(st, transcript) ==
    IF transcript /= << >>
    THEN [st EXCEPT !.transcript = transcript, !.link_sent = extract_link(transcript)]
    ELSE st
\* only the first fragment kept
apply_transcript_first_wins(st, transcript) ==
    IF transcript /= << >>
    THEN [st EXCEPT !.transcript = IF @ = << >> THEN transcript ELSE @,
                    !.link_sent = @ \/ extract_link(transcript)]
    ELSE st
\* the fragment added to the stored transcript
apply_transcript_appending(st, transcript) ==
    IF transcript /= << >>
    THEN [st EXCEPT !.transcript = @ \o transcript,
                    !.link_sent = @ \/ extract_link(transcript)]
    ELSE st
\* lines 91-94
apply_transcript(st, transcript) ==
    IF transcript /= << >>
    THEN [st EXCEPT !.transcript = transcript,
                    !.link_sent = @ \/ extract_link(transcript)]
    ELSE st

\* lines 98-102
apply_messages(st, messages) ==
    [st EXCEPT !.link_sent =
        @ \/ \E k \in DOMAIN messages :
                 /\ IsDict(messages[k])
                 /\ extract_link(Get(messages[k], "content", << >>))]

\* lines 106-107
apply_summary(st, summary) ==
    IF summary /= "" THEN [st EXCEPT !.summary = summary] ELSE st

\* the keyword test without lower()
binary_success_case_sensitive(st) ==
    st.link_sent /\ (Contains(ticket, st.transcript) \/ Contains(single_game, st.transcript))
\* line 112
binary_success(st) ==
    st.link_sent /\ (\/ Contains(ticket, lower(st.transcript))
                     \/ Contains(single_game, lower(st.transcript)))

\* line 83
event_of(body) == OrStr(Get(body, "type", ""), OrStr(Get(body, "event", ""), "unknown"))

\* line 84
data_of(body) == Get(body, "data", EmptyDict)

\* the provider's own key tried before the fallback
call_id_of_reading_call(body) ==
    OrStr(Get(data_of(body), "id", ""),
     OrStr(Get(data_of(body), "callId", ""),
      OrStr(Get(body, "callId", ""),
       OrStr(Get(Get(body, "call", EmptyDict), "id", ""), "unknown"))))
\* line 85, for a data that is a dict
call_id_of(body) ==
    OrStr(Get(data_of(body), "id", ""),
     OrStr(Get(data_of(body), "callId", ""),
      OrStr(Get(body, "callId", ""), "unknown")))

\* line 90
transcript_of(body) ==
    OrText(Get(data_of(body), "transcript", << >>), Get(body, "transcript", << >>))

\* line 97
messages_of(body) == Get(data_of(body), "messages", << >>)

\* line 105
summary_of(body) == OrStr(Get(data_of(body), "summary", ""), Get(body, "summary", ""))

\* a store that holds the call of the last event only
vapi_events_evicting(state, body) ==
    IF data_of(body) = None
    THEN [state |-> state, response |-> InternalServerError, printed |-> None]
    ELSE
    LET call_id == call_id_of(body)
        entered == setdefault(state, call_id)
        st == apply_summary(
                apply_messages(
                  apply_transcript(entered[call_id], transcript_of(body)),
                  messages_of(body)),
                summary_of(body))
    IN  [state |-> Put(EmptyDict, call_id, st),
         response |-> [ok |-> TRUE],
         printed |-> IF event_of(body) \in TerminalEvents
                     THEN [call_id |-> call_id,
                           summary |-> OrStr(st.summary, "(no summary provided)"),
                           success |-> binary_success(st)]
                     ELSE None]
\* vapi_events from line 83 on: the store it leaves, its answer and what it
\* prints.  data = null makes data.get raise AttributeError at line 85, before
\* the store is touched.
vapi_events(state, body) ==
    IF data_of(body) = None
    THEN [state |-> state, response |-> InternalServerError, printed |-> None]
    ELSE
    LET call_id == call_id_of(body)
        entered == setdefault(state, call_id)
        st == apply_summary(
                apply_messages(
                  apply_transcript(entered[call_id], transcript_of(body)),
                  messages_of(body)),
                summary_of(body))
    IN  [state |-> Put(entered, call_id, st),
         response |-> [ok |-> TRUE],
         printed |-> IF event_of(body) \in TerminalEvents
                     THEN [call_id |-> call_id,
                           summary |-> OrStr(st.summary, "(no summary provided)"),
                           success |-> binary_success(st)]
                     ELSE None]

\* Texts and webhook bodies the provider sends.
Hello == <<"h", "e", "l", "l", "o">>
Tickets == <<"T", "i", "c", "k", "e", "t", "s">>
SingleGame == <<"S", "i", "n", "g", "l", "e", "-", "G", "a", "m", "e">>
Link == <<"a", "t", " ", "h", "t", "t", "p", "s", ":", "/", "/", "t", ".", "c", "o">>
NoLink == <<"h", "t", "t", "p", ":", "/", "/", " ", "x">>

\* Bodies that name their call under a key the handler does not read
\* (call.id): an update of call A and the end of call B.
IdlessBodies ==
    { [type |-> "transcript.updated", call |-> [id |-> "A"],
       data |-> [transcript |-> SingleGame \o Link]],
      [type |-> "call.ended", call |-> [id |-> "B"], data |-> EmptyDict] }

Bodies ==
    { [type |-> "transcript.updated", data |-> [id |-> "c1", transcript |-> Hello]],
      [type |-> "transcript.updated", data |-> [id |-> "c1", transcript |-> SingleGame]],
      [type |-> "conversation.updated",
       data |-> [id |-> "c1", messages |-> <<[role |-> "user"], [content |-> Link]>>]],
      [type |-> "call.ended", data |-> [id |-> "c1", transcript |-> Tickets]],
      [type |-> "call.ended", data |-> [id |-> "c1"]],
      [event |-> "ended", callId |-> "c2", transcript |-> Link, summary |-> "sold"],
      [type |-> "call.completed", data |-> None],
      [type |-> "transcript.updated",
       data |-> [transcript |-> NoLink, messages |-> <<[str |-> Link]>>]],
      [type |-> "analysis.summary",
       data |-> [callId |-> "c2", summary |-> "declined", transcript |-> << >>]] }
    \cup IdlessBodies

\* uvicorn accepts a request and the handler awaits its body (line 82)
Receive(body) ==
    /\ Len(handled) + Len(inflight) < MaxEvents
    /\ Len(inflight) < MaxInflight
    /\ inflight' = Append(inflight,
                          [body |-> body, arrival |-> Len(handled) + Len(inflight) + 1])
    /\ UNCHANGED <<CALL_STATE, handled, unit_vars, status, results_cache, pipeline_vars>>

\* The rest of the handler has no await: on the server's one event loop it
\* runs as one step, for whichever waiting request the loop resumes.
Handle(i) ==
    /\ i \in DOMAIN inflight
    /\ LET out == vapi_events(CALL_STATE, inflight[i].body)
       IN  /\ CALL_STATE' = out.state
           /\ handled' = Append(handled,
                                [body |-> inflight[i].body,
                                 arrival |-> inflight[i].arrival,
                                 response |-> out.response,
                                 printed |-> out.printed,
                                 after |-> out.state])
    /\ inflight' = [k \in 1..(Len(inflight) - 1) |->
                       IF k < i THEN inflight[k] ELSE inflight[k + 1]]
    /\ UNCHANGED <<unit_vars, status, results_cache, pipeline_vars>>

NextWebhook ==
    \/ \E body \in Bodies : Receive(body)
    \/ \E i \in DOMAIN inflight : Handle(i)

InitWebhook == Init /\ collection = AllGames

SpecWebhook == InitWebhook /\ [][NextWebhook]_vars

\* ------------------------------------------- the tools next to the webhooks
\* main (lines 261-273) serves the webhooks on a thread of its own and the
\* tools on the main thread, after finding TO_NUMBER and PUBLIC_URL set.
\* Lines 18-20 leave TO_NUMBER, VAPI_ASSISTANT_ID and PUBLIC_URL unbound in
\* the module; bound says whether they have been bound when the tool runs.

\* what start_vapi_call gives: the provider's JSON, or the HTTPError of
\* raise_for_status
CallResponses == {[id |-> "c1"], [callId |-> "c2"], EmptyDict, [raised |-> "HTTPError"]}

\* start_call, lines 217-256: the store it leaves, the exception it lets
\* through (<< >> for none) and the text it returns
start_call(state, variables_json, bound, resp) ==
    IF variables_json = "invalid"
    THEN [state |-> state, raised |-> << >>, value |-> <<"Invalid JSON for variables_json">>]
    ELSE IF ~bound
    THEN [state |-> state, raised |-> <<"name 'TO_NUMBER' is not defined">>, value |-> << >>]
    ELSE IF "raised" \in DOMAIN resp
    THEN [state |-> state, raised |-> <<resp.raised>>, value |-> << >>]
    ELSE LET call_id == OrStr(Get(resp, "id", ""), OrStr(Get(resp, "callId", ""), "unknown"))
         IN  [state |-> Put(state, call_id, NewCallState),
              raised |-> << >>,
              value |-> <<"Dialing. Vapi call id: ", call_id>>]

StartCall(variables_json, bound, resp) ==
    LET done == start_call(CALL_STATE, variables_json, bound, resp)
    IN  /\ CALL_STATE' = done.state
        /\ returned' = [op |-> "start_call", raised |-> done.raised, value |-> done.value]
        /\ UNCHANGED <<inflight, handled, completed, given, status, results_cache,
                       pipeline_vars>>

\* the bodies sent while the tools are in use
ToolBodies ==
    IdlessBodies \cup
    { [type |-> "transcript.updated", data |-> [id |-> "c1", transcript |-> Link]],
      [type |-> "call.ended", data |-> [id |-> "c1", transcript |-> Tickets]] }

NextTools ==
    \/ \E body \in ToolBodies : Receive(body)
    \/ \E i \in DOMAIN inflight : Handle(i)
    \/ \E variables_json \in {"{}", "invalid"} : \E bound \in BOOLEAN :
          \E resp \in CallResponses : StartCall(variables_json, bound, resp)

SpecTools == InitWebhook /\ [][NextTools]_vars

\* ------------------------------------------------- the harness on its own
\* The methods of one agent called in any order.  process_task is abstract in
\* BaseAgent: the agent is the DataAnalystAgent, or an agent whose
\* process_task raises.
Agents == {"data_analyst", "raising"}

abstract_process_task(agent, task) ==
    IF agent = "data_analyst" THEN process_task(task) ELSE [raised |-> "RuntimeError"]

TaskIds == {"t1", "t2"}

TaskTypes == {"analyze_user_profile", "match_games_to_user",
              "generate_conversation_insights", "send_email"}

\* a user with a profile and neither history nor favorites
NewUserData(preferences) ==
    [profile |-> [id |-> "u2", name |-> "Bo"],
     history |-> << >>, preferences |-> preferences, similar_users |-> << >>]

TaskData == {EmptyDict,
             [user_data |-> _gather_user_data("u1").value],
             [user_data |-> _gather_user_data("u3").value],
             [user_data |-> NewUserData(EmptyDict)],
             [user_data |-> NewUserData([general_preferences |-> NullType,
                                         favorite_teams |-> << >>,
                                         favorite_sports |-> << >>])]}

Tasks == {AgentTask(id, type, data) : id \in TaskIds, type \in TaskTypes, data \in TaskData}

ExecuteTask(agent, task) ==
    LET outcome == abstract_process_task(agent, task)
        done == BaseAgent_execute_task(results_cache, task, outcome)
    IN  /\ status' = done.status
        /\ results_cache' = done.cache
        /\ returned' = [op |-> "execute_task", agent |-> agent, task |-> task,
                        raised |-> "raised" \in DOMAIN outcome,
                        status_before |-> status, cache_before |-> results_cache,
                        value |-> done.result]
        /\ completed' = IF "raised" \notin DOMAIN outcome /\ outcome.status = COMPLETED
                        THEN Put(completed, task.id, outcome) ELSE completed
        /\ UNCHANGED <<given, aggregator_vars, pipeline_vars>>

\* a lookup that takes the entry out of the cache
get_cached_result_popping(cache, task_id) ==
    [value |-> Get(cache, task_id, None),
     cache |-> [k \in DOMAIN cache \ {task_id} |-> cache[k]]]
\* BaseAgent.get_cached_result: the value returned and the cache it leaves
get_cached_result(cache, task_id) ==
    [value |-> Get(cache, task_id, None), cache |-> cache]

\* BaseAgent.clear_cache
clear_cache(cache) == EmptyDict

GetCachedResult(task_id) ==
    /\ returned' = [op |-> "get_cached_result", task_id |-> task_id,
                    cache_before |-> results_cache,
                    value |-> get_cached_result(results_cache, task_id).value]
    /\ results_cache' = get_cached_result(results_cache, task_id).cache
    /\ UNCHANGED <<status, completed, given, aggregator_vars, pipeline_vars>>

ClearCache ==
    /\ results_cache' = clear_cache(results_cache)
    /\ returned' = [op |-> "clear_cache", cache_before |-> results_cache, value |-> None]
    /\ completed' = EmptyDict
    /\ UNCHANGED <<status, given, aggregator_vars, pipeline_vars>>

NextHarness ==
    \/ \E agent \in Agents : \E task \in Tasks : ExecuteTask(agent, task)
    \/ \E task_id \in TaskIds : GetCachedResult(task_id)
    \/ ClearCache

InitHarness == Init /\ collection = AllGames

SpecHarness == InitHarness /\ [][NextHarness]_vars

\* ------------------------------------------- the operations on their own
\* One operation of the scoring engine or of the orchestrator applied to
\* arguments drawn at the start.
PreferenceSets ==
    { EmptyDict,
      [favorite_teams |-> << >>, favorite_sports |-> << >>],
      [favorite_teams |-> <<"X">>, favorite_sports |-> << >>],
      [favorite_teams |-> << >>, favorite_sports |-> <<"baseball">>],
      [favorite_teams |-> <<"X">>] }

\* a history of one ticket type, newest first
HistoryOf(length, ticket_type) ==
    [k \in 1..length |->
        [game_id |-> "g1", game_title |-> "Derby", ticket_type |-> ticket_type,
         rating |-> 3, attended_date |-> length - k + 1]]

SegmentInputs ==
    {[kind |-> "segment", history |-> HistoryOf(length, ticket_type), preferences |-> p] :
        length \in 0..MaxHistory, ticket_type \in {"Standard", "Premium"},
        p \in PreferenceSets}

\* Rows in the order of the history query (attended_date descending, rows
\* without a date first); a rating of 0 stands for a row without the key
\* satisfaction_rating.
Undated(n) == [k \in 1..n |-> [game_id |-> "g0", satisfaction_rating |-> 1,
                               attended_date |-> 0]]

Dated(ratings) ==
    [k \in DOMAIN ratings |->
        IF ratings[k] = 0
        THEN [game_id |-> "g1", rating |-> 5, attended_date |-> Len(ratings) - k + 1]
        ELSE [game_id |-> "g1", satisfaction_rating |-> ratings[k],
              attended_date |-> Len(ratings) - k + 1]]

EngagementInputs ==
    {[kind |-> "engagement", history |-> Undated(n) \o Dated(ratings)] :
        n \in 0..2, ratings \in UNION {[1..d -> {0, 4, 5}] : d \in 0..MaxDated}}

Candidate(k) ==
    [id |-> <<"e", k>>, properties |-> [title |-> <<"Game", k>>], score |-> k]

CategorySets == SUBSET {<<"Team", "Giants">>, <<"Team", "X">>, <<"Sport", "baseball">>}

MatchInputs ==
    {[kind |-> "match",
      user_analysis |-> [user_segment |-> "VIP_Fan", preferred_categories |-> c],
      available_games |-> [k \in 1..n |-> Candidate(k)]] :
        n \in 0..MaxCandidates, c \in {{}, {<<"Team", "Giants">>}}}

ScoreInputs ==
    UNION {
      {[kind |-> "score", game |-> AllGames[g],
        first |-> [preferred_categories |-> c1],
        second |-> [preferred_categories |-> c2]] :
          g \in DOMAIN AllGames, c2 \in {c \in CategorySets : c1 \subseteq c}} :
      c1 \in CategorySets}

\* a collection of twelve games of four teams and three sports
Teams == <<"T1", "T2", "T3", "T4">>
Sports == <<"S1", "S2", "S3">>

BigGames ==
    [k \in 1..12 |->
        [id |-> <<"b", k>>,
         properties |-> [title |-> <<"Game", k>>,
                         team |-> Teams[((k - 1) \div 3) + 1],
                         sport |-> Sports[((k - 1) % 3) + 1]]]]

FetchInputs ==
    UNION {
      {[kind |-> "fetch", collection |-> c,
        user_data |-> [preferences |-> [favorite_teams |-> Prefix(Teams, t),
                                        favorite_sports |-> Prefix(Sports, s)]],
        outcomes |-> o] :
          o \in [1..(Min(t, 3) + Min(s, 2) + 1) -> SearchOutcomes]} :
      c \in {<< >>, BigGames}, t \in 0..Len(Teams), s \in 0..Len(Sports)}

\* ---- the tool surface (MCPServer)
ToolNames == {"get_user_profile", "get_user_game_history", "get_user_preferences",
              "get_similar_users", "record_interaction", "delete_user"}

\* arguments[key]: the value, or the KeyError / TypeError the subscript raises
Subscript(arguments, key) ==
    IF arguments = None
    THEN [raised |-> <<"'NoneType' object is not subscriptable">>]
    ELSE IF key \in DOMAIN arguments
    THEN [value |-> arguments[key]]
    ELSE [raised |-> <<"'", key, "'">>]

\* arguments.get(key, default)
DictGet(arguments, key, default) ==
    IF arguments = None
    THEN [raised |-> <<"'NoneType' object has no attribute 'get'">>]
    ELSE [value |-> Get(arguments, key, default)]

\* the first exception among the evaluated arguments, << >> for none
RECURSIVE FirstRaised(_)
FirstRaised(args) ==
    IF args = << >> THEN << >>
    ELSE IF "raised" \in DOMAIN Head(args) THEN Head(args).raised
    ELSE FirstRaised(Tail(args))

ClientError == <<"session closed">>

\* the body of the try block of handle_tool_call: the dict returned, the
\* exception raised (<< >> for none) and the nodes added to the graph store
\* (the CREATE follows a MATCH of the user node)
tool_call_body(tool_name, arguments, outcome) ==
    LET user_id == Subscript(arguments, "user_id")
        Done(args, ok, failed, created) ==
            IF FirstRaised(args) /= << >>
            THEN [raised |-> FirstRaised(args), created |-> {}]
            ELSE IF outcome = "raise"
            THEN [raised |-> ClientError, created |-> {}]
            ELSE [raised |-> << >>,
                  value |-> [success |-> TRUE,
                             data |-> IF outcome = "ok" THEN ok ELSE failed],
                  created |-> IF outcome = "ok" THEN created ELSE {}]
    IN  IF tool_name = "get_user_profile"
        THEN Done(<<user_id>>, get_user_profile(user_id.value), None, {})
        ELSE IF tool_name = "get_user_game_history"
        THEN LET limit == DictGet(arguments, "limit", 10)
             IN  Done(<<user_id, limit>>,
                      get_user_game_history(user_id.value, limit.value), << >>, {})
        ELSE IF tool_name = "get_user_preferences"
        THEN Done(<<user_id>>, get_user_preferences(user_id.value), EmptyDict, {})
        ELSE IF tool_name = "get_similar_users"
        THEN LET limit == DictGet(arguments, "limit", 5)
             IN  Done(<<user_id, limit>>,
                      get_similar_users(user_id.value, limit.value), << >>, {})
        ELSE IF tool_name = "record_interaction"
        THEN LET interaction_type == Subscript(arguments, "interaction_type")
                 details == Subscript(arguments, "details")
             IN  Done(<<user_id, interaction_type, details>>,
                      [recorded |-> TRUE], [recorded |-> FALSE],
                      IF user_id.value \in DOMAIN UserNodes
                      THEN {[user_id |-> user_id.value, type |-> interaction_type.value,
                             details |-> details.value]}
                      ELSE {})
        ELSE [raised |-> << >>, created |-> {},
              value |-> [success |-> FALSE, error |-> <<"Unknown tool: ", tool_name>>]]

\* the try block without its handler
handle_tool_call_unguarded(tool_name, arguments, outcome) ==
    tool_call_body(tool_name, arguments, outcome)
\* MCPServer.handle_tool_call
handle_tool_call(tool_name, arguments, outcome) ==
    LET body == tool_call_body(tool_name, arguments, outcome)
    IN  IF body.raised /= << >>
        THEN [raised |-> << >>, created |-> body.created,
              value |-> [success |-> FALSE, error |-> body.raised]]
        ELSE body

ArgumentKeys == {"user_id", "limit", "interaction_type", "details"}

ArgumentValue(key, user_id) ==
    IF key = "user_id" THEN user_id
    ELSE IF key = "limit" THEN 1
    ELSE IF key = "interaction_type" THEN "call"
    ELSE [outcome |-> "sold"]

\* argument maps with any of the keys present, and a null argument map
ArgumentMaps ==
    {None} \cup {[key \in keys |-> ArgumentValue(key, user_id)] :
                    keys \in SUBSET ArgumentKeys, user_id \in Users}

ToolInputs ==
    {[kind |-> "tool", tool_name |-> t, arguments |-> a, outcome |-> o] :
        t \in ToolNames, a \in ArgumentMaps, o \in RecordOutcomes}

UnitInputs == SegmentInputs \cup EngagementInputs \cup MatchInputs \cup ScoreInputs
              \cup FetchInputs \cup ToolInputs

Apply(kind, op, value) ==
    /\ given.kind = kind
    /\ returned = None
    /\ returned' = [op |-> op, value |-> value]
    /\ UNCHANGED <<completed, given, status, results_cache, aggregator_vars,
                   pipeline_vars>>

DetermineUserSegment ==
    Apply("segment", "_determine_user_segment",
          _determine_user_segment(given.history, given.preferences))

CalculateEngagementLevel ==
    Apply("engagement", "_calculate_engagement_level",
          _calculate_engagement_level(given.history))

MatchGames ==
    Apply("match", "_match_games_to_user",
          _match_games_to_user(AgentTask("t1", "match_games_to_user",
                                         [user_analysis |-> given.user_analysis,
                                          available_games |-> given.available_games])))

CalculateGameMatchScore ==
    Apply("score", "_calculate_game_match_score",
          <<_calculate_game_match_score(given.game, given.first),
            _calculate_game_match_score(given.game, given.second)>>)

FetchEvents ==
    Apply("fetch", "_gather_game_data",
          _gather_game_data(given.collection, given.user_data, given.outcomes))

HandleToolCall ==
    LET done == handle_tool_call(given.tool_name, given.arguments, given.outcome)
    IN  /\ given.kind = "tool"
        /\ returned = None
        /\ returned' = [op |-> "handle_tool_call",
                        raised |-> done.raised /= << >>,
                        value |-> IF done.raised /= << >> THEN None ELSE done.value]
        /\ interactions' = interactions \cup done.created
        /\ UNCHANGED <<completed, given, status, results_cache, aggregator_vars,
                       collection, clock, harness_writers, bpc, user_list, run,
                       batch_result>>

NextUnits ==
    \/ HandleToolCall
    \/ DetermineUserSegment
    \/ CalculateEngagementLevel
    \/ MatchGames
    \/ CalculateGameMatchScore
    \/ FetchEvents

InitUnits ==
    /\ collection = AllGames
    /\ interactions = {}
    /\ clock = 0
    /\ status = IDLE
    /\ results_cache = EmptyDict
    /\ harness_writers = {}
    /\ bpc = "idle"
    /\ user_list = << >>
    /\ run = << >>
    /\ batch_result = None
    /\ CALL_STATE = EmptyDict
    /\ inflight = << >>
    /\ handled = << >>
    /\ returned = None
    /\ completed = EmptyDict
    /\ given \in UnitInputs

SpecUnits == InitUnits /\ [][NextUnits]_vars

\* ------------------------------------------------------------ the claims
CallsOf(r, op) == Cardinality({k \in DOMAIN r.calls : r.calls[k].op = op})

Executed(r, type) ==
    \E k \in DOMAIN r.calls : r.calls[k] = Call("execute_task", <<type>>)

FetchUserFailed(r) == "No profile found for user" \in r.log
FetchEventsFailed(r) ==
    "Error searching games" \in r.log \/ "Error gathering game data" \in r.log
SegmentFailed(r) == "User analysis failed" \in r.log
MatchFailed(r) == "Game matching failed" \in r.log
SynthesizeFailed(r) == "Conversation insights generation failed" \in r.log

HaltingStageFailed(r) ==
    FetchUserFailed(r) \/ SegmentFailed(r) \/ MatchFailed(r) \/ SynthesizeFailed(r)

IsError(result) == "error" \in DOMAIN result
IsSuccess(result) == "success" \in DOMAIN result /\ result.success

MentionsUser(message, user_id) == \E k \in DOMAIN message : message[k] = user_id

\* C2 as stated: the error of a halted run identifies the failing stage and
\* the user id of the request.
C2_ErrorNamesStageAndUser ==
    \A i \in Runs :
        (run[i].pc = "done" /\ IsError(run[i].result))
            => MentionsUser(run[i].result.error, run[i].user_id)

\* C2 amended: a run whose stage returned nothing halts at that stage with the
\* fixed message of that stage; only the FetchUser message carries the user id.
C2_ErrorNamesStage ==
    \A i \in Runs :
        LET r == run[i]
        IN  /\ FetchUserFailed(r) =>
                  /\ r.pc = "done"
                  /\ r.result = [error |-> <<"Could not retrieve data for user", r.user_id>>]
                  /\ CallsOf(r, "search_games") = 0 /\ CallsOf(r, "execute_task") = 0
            /\ SegmentFailed(r) =>
                  /\ r.pc = "done"
                  /\ r.result = [error |-> <<"Failed to analyze user profile">>]
                  /\ CallsOf(r, "execute_task") = 1
            /\ MatchFailed(r) =>
                  /\ r.pc = "done"
                  /\ r.result = [error |-> <<"Failed to match games to user">>]
                  /\ CallsOf(r, "execute_task") = 2
            /\ SynthesizeFailed(r) =>
                  /\ r.pc = "done"
                  /\ r.result = [error |-> <<"Failed to generate conversation insights">>]
                  /\ CallsOf(r, "execute_task") = 3
            /\ HaltingStageFailed(r) => CallsOf(r, "make_call") = 0
            /\ (r.pc = "done" /\ IsError(r.result)) => HaltingStageFailed(r)

C2_Witness ==
    \E i \in Runs : SegmentFailed(run[i]) /\ run[i].pc = "done" /\ IsError(run[i].result)

\* C3: with zero candidates from FetchEvents the Match task completes with an
\* empty list of matches, no error is returned at FetchEvents or Match, and
\* Synthesize is reached and run on the empty list.
C3_EmptyCandidatesReachSynthesize ==
    \A i \in Runs :
        LET r == run[i]
        IN  (r.game_data = << >> /\ Executed(r, "match_games_to_user")) =>
               /\ r.game_matches = [matched_games |-> << >>]
               /\ ~MatchFailed(r)
               /\ r.pc /= "insights" =>
                     /\ Executed(r, "generate_conversation_insights")
                     /\ r.conversation_insights /= None
                     /\ r.conversation_insights.insights.recommended_offers = << >>
                     /\ Len(r.conversation_insights.insights.key_talking_points) = 2
               /\ r.pc = "done" =>
                     /\ IsSuccess(r.result)
                     /\ r.result.summary.games_recommended = 0

C3_Witness ==
    \E i \in Runs :
        /\ collection = << >> /\ ~FetchEventsFailed(run[i])
        /\ run[i].game_data = << >>
        /\ Executed(run[i], "generate_conversation_insights")

RecordFailed(r) ==
    \E k \in DOMAIN r.calls :
        r.calls[k].op = "record_interaction" /\ r.calls[k].arg[2] \in {"false", "raise"}

\* C4: when recording the interaction fails after InitiateCall returned, the run
\* still returns success = true with the same call_result.
C4_RecordFailureKeepsSuccess ==
    \A i \in Runs :
        (run[i].pc = "done" /\ RecordFailed(run[i])) =>
            /\ IsSuccess(run[i].result)
            /\ run[i].result.call_result = run[i].call_result

C4_Witness ==
    \E i \in Runs :
        /\ run[i].pc = "done"
        /\ \E k \in DOMAIN run[i].calls :
              run[i].calls[k] = Call("record_interaction", <<run[i].user_id, "raise">>)

ProviderFailed(response) ==
    response /= None /\ ("raised" \in DOMAIN response \/ response.status_code /= 201)

\* C5: a provider answer other than success, or a transport failure, shows as
\* an error entry in the call-result payload, and the run reports
\* call_initiated = false.
C5_ProviderFailureNotInitiated ==
    \A i \in Runs :
        ProviderFailed(run[i].response) =>
            /\ "error" \in DOMAIN run[i].call_result.call_data
            /\ run[i].pc = "done" =>
                  /\ "summary" \in DOMAIN run[i].result
                  /\ run[i].result.summary.call_initiated = FALSE

C5_Witness ==
    \E i \in Runs :
        /\ run[i].pc = "done"
        /\ run[i].response /= None
        /\ "status_code" \in DOMAIN run[i].response
        /\ run[i].response.status_code = 500

\* C6: make_call takes every 2xx answer whose body holds an id for an initiated
\* call, and every other status for a reported failure.
C6_Every2xxWithIdInitiates ==
    \A i \in Runs :
        LET r == run[i]
        IN  (r.response /= None /\ "status_code" \in DOMAIN r.response) =>
               IF r.response.status_code \in 200..299
               THEN "id" \in DOMAIN r.response.json
                       => r.call_result.call_data = r.response.json
               ELSE "error" \in DOMAIN r.call_result.call_data

\* C7: the batch waits for all its requests, puts each in exactly one of
\* successful_calls and failed_calls, in request order, and each failed entry
\* carries the user id and the error of the request that failed.
C7_BatchPartition ==
    bpc = "done" =>
        LET N == Len(user_list)
            Ok == {k \in 1..N : IsSuccess(run[k].result)}
            Ko == (1..N) \ Ok
            Nth(S, j) == CHOOSE k \in S : Cardinality({m \in S : m < k}) = j - 1
        IN  /\ DOMAIN run = 1..N
            /\ \A k \in 1..N : run[k].pc = "done" /\ run[k].result /= None
            /\ batch_result.summary =
                  [total |-> N, successful |-> Cardinality(Ok), failed |-> Cardinality(Ko)]
            /\ Len(batch_result.successful_calls) = Cardinality(Ok)
            /\ Len(batch_result.failed_calls) = Cardinality(Ko)
            /\ \A j \in 1..Cardinality(Ok) :
                  batch_result.successful_calls[j] = run[Nth(Ok, j)].result
            /\ \A j \in 1..Cardinality(Ko) :
                  /\ batch_result.failed_calls[j].user_id = user_list[Nth(Ko, j)].user_id
                  /\ batch_result.failed_calls[j].error = run[Nth(Ko, j)].result.error

C7_Witness ==
    /\ bpc = "done"
    /\ Len(user_list) = 2
    /\ user_list[1].user_id = "u1" /\ user_list[2].user_id = "u2"
    /\ batch_result.summary.successful = 1
    /\ batch_result.failed_calls = << [user_id |-> "u2",
          error |-> <<"Could not retrieve data for user", "u2">>] >>

\* C8: the pipeline instances of a batch share no harness: a harness status or
\* results cache is written by at most one of them.
C8_NoSharedHarness == Cardinality(harness_writers) <= 1

\* C9: a run halted by a failed stage never invokes record_interaction and
\* leaves the graph store as it was.
C9_HaltedRunPersistsNothing ==
    \A i \in Runs :
        (HaltingStageFailed(run[i]) \/ (run[i].pc = "done" /\ IsError(run[i].result))) =>
            /\ CallsOf(run[i], "record_interaction") = 0
            /\ interactions = {}

C9_Witness ==
    \E i \in Runs :
        FetchUserFailed(run[i]) /\ run[i].pc = "done" /\ IsError(run[i].result)

\* C10: within a run no request to a collaborator or to the harness is made
\* twice, and a failed stage is the last thing the run does.
C10_NoStageRetried ==
    \A i \in Runs :
        LET r == run[i]
            last == r.calls[Len(r.calls)]
        IN  /\ \A j, k \in DOMAIN r.calls : j /= k => r.calls[j] /= r.calls[k]
            /\ CallsOf(r, "get_user_profile") <= 1
            /\ CallsOf(r, "execute_task") <= 3
            /\ CallsOf(r, "make_call") <= 1
            /\ CallsOf(r, "record_interaction") <= 1
            /\ FetchUserFailed(r) =>
                  r.pc = "done" /\ last = Call("get_user_profile", <<r.user_id>>)
            /\ SegmentFailed(r) =>
                  r.pc = "done" /\ last = Call("execute_task", <<"analyze_user_profile">>)
            /\ MatchFailed(r) =>
                  r.pc = "done" /\ last = Call("execute_task", <<"match_games_to_user">>)
            /\ SynthesizeFailed(r) =>
                  /\ r.pc = "done"
                  /\ last = Call("execute_task", <<"generate_conversation_insights">>)

C10_Witness ==
    \E i \in Runs :
        /\ run[i].pc = "done"
        /\ ProviderFailed(run[i].response)
        /\ FetchEventsFailed(run[i])
        /\ CallsOf(run[i], "make_call") = 1
        /\ CallsOf(run[i], "record_interaction") = 1

\* ----------------------------------------- the claims about the aggregator
Ok(k) == handled[k].response = [ok |-> TRUE]

IdAt(k) == call_id_of(handled[k].body)

IsTerminal(k) == event_of(handled[k].body) \in TerminalEvents

Before(k) == IF k = 1 THEN EmptyDict ELSE handled[k - 1].after

StoredBefore(k) == Get(Before(k), IdAt(k), NewCallState)

StoredAfter(k) == handled[k].after[IdAt(k)]

HasKeyword(text) ==
    Contains(ticket, lower(text)) \/ Contains(single_game, lower(text))

\* the handled events of a call id
EventsOf(id) == {k \in DOMAIN handled : Ok(k) /\ IdAt(k) = id}

Last(ks) == CHOOSE k \in ks : \A m \in ks : m <= k

\* the transcript most recently delivered for the call id of event k, up to k
LastTranscript(k) ==
    LET ks == {m \in EventsOf(IdAt(k)) : m <= k /\ transcript_of(handled[m].body) /= << >>}
    IN  IF ks = {} THEN << >> ELSE transcript_of(handled[Last(ks)].body)

\* C11: once link_sent is true in the stored state of a call id, no webhook
\* event handled later, of whatever type and content, leaves it false; the
\* store itself is always the one the last handled event left.
C11_LinkSentMonotone ==
    /\ handled /= << >> => CALL_STATE = handled[Len(handled)].after
    /\ \A k \in DOMAIN handled : \A id \in DOMAIN Before(k) :
           Before(k)[id].link_sent =>
               id \in DOMAIN handled[k].after /\ handled[k].after[id].link_sent

\* link_sent was true for a call id and a later event for it carried a
\* transcript without a link
C11_Witness ==
    \E k \in DOMAIN handled :
        /\ Ok(k)
        /\ StoredBefore(k).link_sent
        /\ transcript_of(handled[k].body) /= << >>
        /\ ~extract_link(transcript_of(handled[k].body))
        /\ CALL_STATE[IdAt(k)].link_sent

ScenarioC ==
    << [type |-> "transcript.updated", data |-> [id |-> "c1", transcript |-> Hello]],
       [type |-> "conversation.updated",
        data |-> [id |-> "c1", messages |-> <<[role |-> "user"], [content |-> Link]>>]],
       [type |-> "call.ended", data |-> [id |-> "c1", transcript |-> Tickets]] >>

\* C12: on a terminal event the printed verdict is link_sent AND (the stored
\* transcript contains "ticket" or "single-game", case-insensitively), taken
\* on the state the terminal event itself leaves; the sequence transcript
\* without URL, message with URL, terminal event with "ticket" in its
\* transcript gives link_sent false, then true, then success.
C12_VerdictOnUpdatedState ==
    /\ \A k \in DOMAIN handled :
           Ok(k) /\ IsTerminal(k) =>
               /\ handled[k].printed /= None
               /\ handled[k].printed.success =
                      (StoredAfter(k).link_sent /\ HasKeyword(StoredAfter(k).transcript))
    /\ [k \in DOMAIN handled |-> handled[k].body] = ScenarioC =>
           /\ ~handled[1].after["c1"].link_sent
           /\ handled[2].after["c1"].link_sent
           /\ handled[3].printed.success

C12_Witness == [k \in DOMAIN handled |-> handled[k].body] = ScenarioC

\* no event for the call id of k was handled between j and k
BackToBack(j, k) ==
    /\ j < k
    /\ handled[j].body = handled[k].body
    /\ \A m \in (j + 1)..(k - 1) : Ok(m) => IdAt(m) /= IdAt(k)

\* C13: a terminal event delivered a second time for its call id prints the
\* verdict of the first delivery and leaves transcript, link_sent and summary
\* of the call id as they were.
C13_TerminalRedeliveryIdempotent ==
    \A j, k \in DOMAIN handled :
        BackToBack(j, k) /\ Ok(k) /\ IsTerminal(k) =>
            /\ handled[k].printed.success = handled[j].printed.success
            /\ StoredAfter(k) = StoredBefore(k)
            /\ StoredAfter(k) = StoredAfter(j)

\* a terminal event with a transcript was delivered twice, successfully
C13_Witness ==
    \E j, k \in DOMAIN handled :
        /\ BackToBack(j, k) /\ Ok(k) /\ IsTerminal(k)
        /\ transcript_of(handled[k].body) /= << >>
        /\ handled[k].printed.success

\* C14: for each call id the verdict is printed exactly once, however many
\* terminal events are handled for it.
C14_VerdictPrintedOnce ==
    \A k \in DOMAIN handled :
        Ok(k) /\ IsTerminal(k) =>
            Cardinality({m \in EventsOf(IdAt(k)) : handled[m].printed /= None}) = 1

\* C15: after the first terminal event of a call id, no event for that call
\* id changes its stored transcript, link_sent or summary.
C15_ClosedAfterTerminal ==
    \A j, k \in DOMAIN handled :
        j < k /\ Ok(j) /\ IsTerminal(j) /\ Ok(k) /\ IdAt(k) = IdAt(j) =>
            StoredAfter(k) = StoredAfter(j)

\* what the events handled for a call id amount to, taken one after another
Sequential(id) ==
    LET ks == EventsOf(id)
        ts == {k \in ks : transcript_of(handled[k].body) /= << >>}
        ss == {k \in ks : summary_of(handled[k].body) /= ""}
    IN  [transcript |-> IF ts = {} THEN << >> ELSE transcript_of(handled[Last(ts)].body),
         link_sent |->
            \E k \in ks :
                \/ extract_link(transcript_of(handled[k].body))
                \/ \E m \in DOMAIN messages_of(handled[k].body) :
                       /\ IsDict(messages_of(handled[k].body)[m])
                       /\ extract_link(Get(messages_of(handled[k].body)[m], "content", << >>)),
         summary |-> IF ss = {} THEN "" ELSE summary_of(handled[Last(ss)].body)]

\* C16: however the waiting requests are interleaved, the store is the one
\* their events give when applied one at a time in the order handled: no
\* update of a call id is lost, and the state of a call id depends on the
\* events of that call id only.
C16_EventsSerialized ==
    /\ DOMAIN CALL_STATE = {call_id_of(handled[k].body) : k \in {m \in DOMAIN handled : Ok(m)}}
    /\ \A id \in DOMAIN CALL_STATE : CALL_STATE[id] = Sequential(id)

\* two requests for one call id were handled in the reverse of their arrival,
\* one bringing the link and the other the transcript, with a request for
\* another call id handled as well
C16_Witness ==
    \E j, k, m \in DOMAIN handled :
        /\ j < k /\ handled[j].arrival > handled[k].arrival
        /\ Ok(j) /\ Ok(k) /\ Ok(m) /\ IdAt(j) = IdAt(k) /\ IdAt(m) /= IdAt(j)
        /\ ~StoredAfter(j).link_sent /\ StoredAfter(j).transcript /= << >>
        /\ transcript_of(handled[k].body) = << >>
        /\ CALL_STATE[IdAt(k)].link_sent
        /\ CALL_STATE[IdAt(k)].transcript = StoredAfter(j).transcript

\* C17: every webhook request is answered {ok: true}.
C17_AlwaysOk == \A k \in DOMAIN handled : Ok(k)

\* C18: an event with a non-empty transcript leaves exactly that transcript
\* stored for its call id, an event without one leaves the stored transcript
\* as it was, and the keyword test of a terminal verdict is made on the
\* transcript delivered last.
C18_TranscriptLastWriteWins ==
    \A k \in DOMAIN handled :
        Ok(k) =>
            /\ StoredAfter(k).transcript =
                   IF transcript_of(handled[k].body) /= << >>
                   THEN transcript_of(handled[k].body)
                   ELSE StoredBefore(k).transcript
            /\ IsTerminal(k) =>
                   handled[k].printed.success =
                       (StoredAfter(k).link_sent /\ HasKeyword(LastTranscript(k)))

\* two different transcripts were delivered for a call id, then a terminal
\* event without one
C18_Witness ==
    \E i, j, k \in DOMAIN handled :
        /\ i < j /\ j < k /\ Ok(i) /\ Ok(j) /\ Ok(k)
        /\ IdAt(i) = IdAt(k) /\ IdAt(j) = IdAt(k)
        /\ transcript_of(handled[i].body) /= << >>
        /\ transcript_of(handled[j].body) /= << >>
        /\ transcript_of(handled[i].body) /= transcript_of(handled[j].body)
        /\ IsTerminal(k) /\ transcript_of(handled[k].body) = << >>
        /\ StoredAfter(k).transcript = transcript_of(handled[j].body)

\* -------------------------------------------- the claims about the harness
Executing == "op" \in DOMAIN returned /\ returned.op = "execute_task"

IsAgentResult(value) == "status" \in DOMAIN value /\ "task_id" \in DOMAIN value

\* C19: execute_task lets no failure of process_task through: when
\* process_task raises it returns an AgentResult with status error whose
\* error message is set and carries the task id, and an execute_task that
\* follows on the same agent runs its task as usual.
C19_ExecuteNeverPropagates ==
    Executing =>
        /\ IsAgentResult(returned.value)
        /\ returned.value.task_id = returned.task.id
        /\ returned.raised =>
               /\ returned.value.status = ERROR
               /\ returned.value.error /= NoError
               /\ \E k \in DOMAIN returned.value.error :
                      returned.value.error[k] = returned.task.id
               /\ status = ERROR
        /\ returned.status_before = ERROR /\ ~returned.raised =>
               /\ returned.value = process_task(returned.task)
               /\ status = COMPLETED
               /\ returned.value.status = COMPLETED =>
                      results_cache[returned.task.id] = returned.value

\* a task completed on an agent whose previous task was failed by a raise
C19_Witness ==
    /\ Executing
    /\ returned.status_before = ERROR
    /\ ~returned.raised
    /\ returned.value.status = COMPLETED

\* C20: a task of an unregistered type executed on the data analyst gives an
\* AgentResult with status error whose error names the type; nothing is
\* raised and the results cache is left as it was.
C20_UnknownTaskTypeFails ==
    Executing /\ returned.agent = "data_analyst" /\ returned.task.type = "send_email" =>
        /\ IsAgentResult(returned.value)
        /\ ~returned.raised
        /\ returned.value.status = ERROR
        /\ returned.value.error = <<"Unknown task type:", "send_email">>
        /\ results_cache = returned.cache_before

\* an unregistered task executed on a data analyst with a filled cache
C20_Witness ==
    /\ Executing /\ returned.agent = "data_analyst" /\ returned.task.type = "send_email"
    /\ returned.cache_before /= EmptyDict
    /\ returned.task.id \in DOMAIN returned.cache_before

Called(op) == "op" \in DOMAIN returned /\ returned.op = op

\* C21: after any sequence of execute_task, get_cached_result and clear_cache
\* on one agent the cache holds, per task id, the result of the last
\* execute_task that completed since the last clear_cache; get_cached_result
\* returns that result, or nothing when there is none, and leaves the cache
\* as it was; clear_cache leaves the cache empty.
C21_CacheLastWriteWins ==
    /\ results_cache = completed
    /\ Called("get_cached_result") =>
           /\ returned.value = Get(completed, returned.task_id, None)
           /\ results_cache = returned.cache_before
    /\ Called("clear_cache") => results_cache = EmptyDict

\* a lookup has just returned a cached result while another id is cached too
C21_Witness ==
    /\ Called("get_cached_result")
    /\ returned.value /= None
    /\ DOMAIN results_cache = TaskIds

\* C22: every AgentResult execute_task returns has a payload that is not
\* null when its status is completed and an error that is not null when its
\* status is error, whether it comes from a handler, from the branch for
\* unregistered types or from the except branch of execute_task.
C22_ResultWellFormed ==
    Called("execute_task") =>
        /\ IsAgentResult(returned.value)
        /\ returned.value.status \in {COMPLETED, ERROR}
        /\ returned.value.data /= None
        /\ returned.value.status = COMPLETED =>
               /\ DOMAIN returned.value.data /= {}
               /\ returned.value.error = NoError
        /\ returned.value.status = ERROR => returned.value.error /= NoError

\* a handler of the data analyst has failed its task
C22_Witness ==
    /\ Called("execute_task")
    /\ returned.agent = "data_analyst"
    /\ returned.task.type = "analyze_user_profile"
    /\ returned.value.status = ERROR

\* C23: when execute_task returns, the agent's status is error whenever the
\* returned AgentResult has status error, and completed only when the
\* returned AgentResult has status completed.
C23_StatusFollowsResult ==
    Called("execute_task") =>
        /\ returned.value.status = ERROR => status = ERROR
        /\ status = COMPLETED => returned.value.status = COMPLETED

\* C24: no two tasks created on the data analyst, by whichever stage of
\* whichever run, have the same id.
C24_TaskIdsUnique ==
    \A i, j \in Runs : \A k \in DOMAIN run[i].tasks : \A l \in DOMAIN run[j].tasks :
        <<i, k>> /= <<j, l>> => run[i].tasks[k] /= run[j].tasks[l]

\* ---------------------------------- the claims about the scoring operations
PreferencesPresent(p) ==
    Get(p, "favorite_teams", << >>) /= << >> \/ Get(p, "favorite_sports", << >>) /= << >>

\* C25: the segment follows the thresholds on the history length, first match
\* first: 10 and more VIP_Fan, 5 and more Regular_Attendee, 2 and more
\* Occasional_Fan, below that Interested_Prospect with a favorite team or
\* sport and New_Prospect without; nothing else of the arguments matters.
C25_SegmentThresholds ==
    Called("_determine_user_segment") =>
        LET length == Len(given.history)
            present == PreferencesPresent(given.preferences)
        IN  /\ returned.value =
                   IF length >= 10 THEN "VIP_Fan"
                   ELSE IF length >= 5 THEN "Regular_Attendee"
                   ELSE IF length >= 2 THEN "Occasional_Fan"
                   ELSE IF present THEN "Interested_Prospect"
                   ELSE "New_Prospect"
            /\ length \in {10, 12} /\ ~present => returned.value = "VIP_Fan"
            /\ length = 1 /\ given.preferences = [favorite_teams |-> <<"X">>] =>
                   returned.value = "Interested_Prospect"
            /\ length = 0 /\ given.preferences = EmptyDict =>
                   returned.value = "New_Prospect"

\* a history of ten entries classified without any preference
C25_Witness ==
    /\ Called("_determine_user_segment")
    /\ Len(given.history) = 10
    /\ given.preferences = EmptyDict
    /\ returned.value = "VIP_Fan"

DatedEntries(history) ==
    LET HasDate(g) == g.attended_date /= 0
    IN  SelectSeq(history, HasDate)

\* the level of the mean rating, a missing rating counting 3
LevelOf(entries) ==
    LET total == SumSeq([k \in DOMAIN entries |->
                            IF "satisfaction_rating" \in DOMAIN entries[k]
                            THEN entries[k].satisfaction_rating ELSE 3])
    IN  IF 2 * total >= 9 * Len(entries) THEN "High"
        ELSE IF 2 * total >= 7 * Len(entries) THEN "Medium"
        ELSE "Low"

\* C26: the engagement level is the level of the mean rating of the first
\* five dated entries of the history (the most recent ones, the history being
\* ordered newest first): High from 4.5, Medium from 3.5, Low below; an empty
\* history gives Low, and the entries after those five never change it.
C26_EngagementFromFiveRecent ==
    Called("_calculate_engagement_level") =>
        LET dated == DatedEntries(given.history)
        IN  /\ given.history = << >> => returned.value = "Low"
            /\ dated /= << >> =>
                   /\ returned.value = LevelOf(Prefix(dated, 5))
                   /\ returned.value = _calculate_engagement_level(Prefix(dated, 5))

\* six dated entries after an undated one, the sixth rated lower than the mean
\* of the five before it
C26_Witness ==
    /\ Called("_calculate_engagement_level")
    /\ Len(DatedEntries(given.history)) = 6
    /\ Len(given.history) > 6
    /\ "satisfaction_rating" \notin DOMAIN DatedEntries(given.history)[6]
    /\ returned.value = "High"
    /\ LevelOf(DatedEntries(given.history)) = "Medium"

\* C27: the match task returns min(number of candidates, 5) matches, sorted by
\* descending match_score, matches of equal score in the order of their
\* candidates; these are the first five candidates, in their order.
C27_MatchesSortedCapped ==
    Called("_match_games_to_user") =>
        LET matched == returned.value.data.matched_games
            games == given.available_games
            PlaceOf(m) == CHOOSE k \in DOMAIN games : games[k] = m.game
        IN  /\ returned.value.status = COMPLETED
            /\ Len(matched) = Min(Len(games), 5)
            /\ \A k \in DOMAIN matched : \E j \in DOMAIN games : games[j] = matched[k].game
            /\ \A j, k \in DOMAIN matched :
                   j < k =>
                       /\ matched[j].match_score >= matched[k].match_score
                       /\ matched[j].match_score = matched[k].match_score =>
                              PlaceOf(matched[j]) < PlaceOf(matched[k])
            /\ \A k \in DOMAIN matched : matched[k].game = games[k]

\* more than five candidates were matched
C27_Witness ==
    /\ Called("_match_games_to_user")
    /\ Len(given.available_games) > 5
    /\ Len(returned.value.data.matched_games) = 5

\* C28: every match score lies between 0 and 1, and an analysis with more
\* preferred categories never scores a game lower.
C28_ScoreBoundedMonotone ==
    Called("_calculate_game_match_score") =>
        /\ \A k \in 1..2 : returned.value[k] >= 0 /\ returned.value[k] <= 10
        /\ given.first.preferred_categories \subseteq given.second.preferred_categories =>
               returned.value[2] >= returned.value[1]

\* a game scored for an analysis and for one with strictly more categories
C28_Witness ==
    /\ Called("_calculate_game_match_score")
    /\ given.first.preferred_categories /= given.second.preferred_categories
    /\ given.first.preferred_categories /= {}

Matched(r) == Get(r.game_matches, "matched_games", << >>)

\* C29: a run with exactly one candidate game has exactly one matched game,
\* and reports one recommended game when it completes; the priority of every
\* matched game is "high" for a score above 0.8, "medium" for a score above
\* 0.6 up to 0.8 and "low" otherwise.
C29_OneCandidateOneMatch ==
    \A i \in Runs :
        LET r == run[i]
        IN  r.game_matches /= None =>
                /\ Len(r.game_data) = 1 =>
                       /\ Len(Matched(r)) = 1
                       /\ Matched(r)[1].game = r.game_data[1]
                       /\ r.result /= None /\ "summary" \in DOMAIN r.result =>
                              r.result.summary.games_recommended = 1
                /\ \A k \in DOMAIN Matched(r) :
                       LET m == Matched(r)[k]
                       IN  /\ m.priority = "high" <=> m.match_score > 8
                           /\ m.priority = "medium" <=>
                                  (m.match_score > 6 /\ m.match_score <= 8)
                           /\ m.priority = "low" <=> m.match_score <= 6

\* a run with one candidate game has completed
C29_Witness ==
    \E i \in Runs :
        /\ Len(run[i].game_data) = 1
        /\ run[i].pc = "done"
        /\ run[i].result /= None
        /\ "summary" \in DOMAIN run[i].result
        /\ run[i].result.summary.games_recommended = 1

\* the queries the preferences call for
ExpectedQueries(user_data) ==
    LET teams == user_data.preferences.favorite_teams
        sports == user_data.preferences.favorite_sports
    IN  [k \in 1..Min(Len(teams), 3) |-> <<"games", teams[k]>>]
        \o [k \in 1..Min(Len(sports), 2) |-> <<sports[k], "games tickets">>]
        \o << <<"upcoming games schedule">> >>

\* C30: _gather_game_data searches once per query, for the first three
\* favorite teams, the first two favorite sports and the upcoming games, in
\* this order (one to six searches; none after a search that raises); the
\* list it returns has no two games of the same id, only games some search
\* returned, and at most ten games.
C30_FetchEventsQueries ==
    Called("_gather_game_data") =>
        LET expected == ExpectedQueries(given.user_data)
            got == returned.value
            Raises(k) == given.outcomes[k] = "raise"
        IN  /\ Len(expected) >= 1 /\ Len(expected) <= 6
            /\ Len(got.calls) <= Len(expected)
            /\ \A k \in DOMAIN got.calls : got.calls[k] = Call("search_games", expected[k])
            /\ \A k \in DOMAIN expected :
                   k \in DOMAIN got.calls <=> \A j \in 1..(k - 1) : ~Raises(j)
            /\ \A j, k \in DOMAIN got.value : j /= k => got.value[j].id /= got.value[k].id
            /\ \A k \in DOMAIN got.value :
                   \E q \in DOMAIN got.calls :
                       /\ given.outcomes[q] = "hit"
                       /\ \E n \in 1..5 :
                              LET found == near_text(given.collection, expected[q], 5)
                              IN  n \in DOMAIN found /\ found[n].id = got.value[k].id
            /\ Len(got.value) <= 10

\* six searches for four favorite teams and three favorite sports found more
\* than ten different games
C30_Witness ==
    /\ Called("_gather_game_data")
    /\ Len(given.user_data.preferences.favorite_teams) = 4
    /\ Len(given.user_data.preferences.favorite_sports) = 3
    /\ \A k \in DOMAIN given.outcomes : given.outcomes[k] = "hit"
    /\ Len(returned.value.calls) = 6
    /\ Len(returned.value.value) = 10
    /\ Cardinality(UNION {{near_text(given.collection, ExpectedQueries(given.user_data)[q], 5)[n].id :
                              n \in DOMAIN near_text(given.collection,
                                                     ExpectedQueries(given.user_data)[q], 5)} :
                           q \in 1..6}) > 10

\* ---- C31
ToolCalled == returned /= None /\ returned.op = "handle_tool_call"

\* C31: every call of the tool surface, for a known or unknown tool name and
\* any argument map (required keys missing or not, or no map at all),
\* returns without raising a dict with a boolean success that carries data
\* when success is true and an error when it is false.
C31_ToolCallStructured ==
    ToolCalled =>
        /\ ~returned.raised
        /\ "success" \in DOMAIN returned.value
        /\ returned.value.success \in BOOLEAN
        /\ returned.value.success => DOMAIN returned.value = {"success", "data"}
        /\ ~returned.value.success =>
              /\ DOMAIN returned.value = {"success", "error"}
              /\ returned.value.error /= << >>

\* a tool called without its required key, and a failure inside the client
C31_Witness ==
    /\ ToolCalled
    /\ given.tool_name = "record_interaction"
    /\ given.arguments /= None
    /\ DOMAIN given.arguments = {"user_id", "details"}
    /\ ~returned.value.success

\* ---- C32
SegmentTaskRun ==
    /\ Called("execute_task")
    /\ returned.agent = "data_analyst"
    /\ returned.task.type = "analyze_user_profile"

EmptyHistoryAndPreferences(task) ==
    LET user_data == Get(task.data, "user_data", EmptyDict)
    IN  /\ Get(user_data, "history", << >>) = << >>
        /\ ~PreferencesPresent(Get(user_data, "preferences", EmptyDict))

\* C32: for a user with empty history and empty preferences the Segment task
\* completes with segment "New_Prospect", a risk factor "No purchase history"
\* and the spending pattern "Unknown".
C32_NewProspectScenario ==
    (SegmentTaskRun /\ EmptyHistoryAndPreferences(returned.task)) =>
        /\ returned.value.status = COMPLETED
        /\ LET analysis == returned.value.data.analysis
           IN  /\ analysis.user_segment = "New_Prospect"
               /\ \E k \in DOMAIN analysis.risk_factors :
                     analysis.risk_factors[k] = "No purchase history"
               /\ analysis.spending_pattern.pattern = "Unknown"

\* the Segment task run on a user whose preference row has two empty lists
C32_Witness ==
    /\ SegmentTaskRun
    /\ EmptyHistoryAndPreferences(returned.task)
    /\ "user_data" \in DOMAIN returned.task.data
    /\ "favorite_teams" \in DOMAIN returned.task.data.user_data.preferences
    /\ returned.value.status = COMPLETED

\* ---- C33
\* the updates of lines 90-107 for the body of event k, applied to st
Updated(k, st) ==
    apply_summary(
      apply_messages(apply_transcript(st, transcript_of(handled[k].body)),
                     messages_of(handled[k].body)),
      summary_of(handled[k].body))

\* C33: the state of a call id is created by the first event that refers to
\* the id, as an empty transcript, link_sent false and an empty summary to
\* which this event's updates are applied; an event for an id already stored
\* updates the state that is there; no event removes a call id from the
\* store or changes the state of a call id other than its own.
C33_CreatedOnFirstEventOnly ==
    \A k \in DOMAIN handled :
        LET after == handled[k].after
            own == IF Ok(k) THEN {IdAt(k)} ELSE {}
        IN  /\ DOMAIN after = DOMAIN Before(k) \cup own
            /\ \A id \in DOMAIN Before(k) \ own : after[id] = Before(k)[id]
            /\ \A id \in own :
                  after[id] = Updated(k, IF id \in DOMAIN Before(k)
                                         THEN Before(k)[id] ELSE NewCallState)

\* an event created the state of its call id next to the state of another
\* call id, which a later event for that one then updated
C33_Witness ==
    \E j, k, m \in DOMAIN handled :
        /\ j < k /\ k < m /\ Ok(j) /\ Ok(k) /\ Ok(m)
        /\ IdAt(j) /= IdAt(k) /\ IdAt(m) = IdAt(j)
        /\ IdAt(k) \notin DOMAIN Before(k)
        /\ handled[m].after[IdAt(j)] /= handled[j].after[IdAt(j)]
        /\ handled[m].after[IdAt(k)] = handled[k].after[IdAt(k)]

\* ---- C34
Kept(id) ==
    /\ id \in DOMAIN CALL_STATE'
    /\ CALL_STATE[id].link_sent => CALL_STATE'[id].link_sent
    /\ CALL_STATE[id].transcript /= << >> => CALL_STATE'[id].transcript /= << >>

Idless(body) ==
    /\ Get(data_of(body), "id", "") = ""
    /\ Get(data_of(body), "callId", "") = ""
    /\ Get(body, "callId", "") = ""

\* the call the provider sent the body for
CallOf(body) == Get(Get(body, "call", EmptyDict), "id", "")

\* C35: an event without a call id is stored under the key "unknown", on top
\* of what earlier events without a call id left there, whichever calls they
\* belong to; the verdict of a terminal event without a call id is computed
\* from that shared state.
C35_IdlessShareUnknown ==
    \A k \in DOMAIN handled :
        (Ok(k) /\ Idless(handled[k].body)) =>
            /\ IdAt(k) = "unknown"
            /\ handled[k].after["unknown"] =
                   Updated(k, Get(Before(k), "unknown", NewCallState))
            /\ IsTerminal(k) =>
                  /\ handled[k].printed.call_id = "unknown"
                  /\ handled[k].printed.success = binary_success(handled[k].after["unknown"])

\* the end of call B, bringing neither transcript nor link, is judged a
\* success on the transcript and link of call A
C35_Witness ==
    \E j, k \in DOMAIN handled :
        /\ j < k /\ Ok(j) /\ Ok(k)
        /\ Idless(handled[j].body) /\ Idless(handled[k].body)
        /\ CallOf(handled[j].body) = "A" /\ CallOf(handled[k].body) = "B"
        /\ IsTerminal(k)
        /\ transcript_of(handled[k].body) = << >>
        /\ messages_of(handled[k].body) = << >>
        /\ handled[k].printed.success
        /\ handled[k].after["unknown"].transcript = transcript_of(handled[j].body)

\* ---- C36
ReachedInitiateCall(r) == r.call_result /= None

Returned(r) == r.pc = "done"

\* C36: a run returns success = true exactly when it reached InitiateCall;
\* when the provider call failed the result still has success = true, next
\* to call_initiated = false and the error in the call result, and the batch
\* lists that result among its successful calls.
C36_SuccessMeansCallAttempted ==
    /\ \A i \in Runs :
          Returned(run[i]) =>
             /\ IsSuccess(run[i].result) <=> ReachedInitiateCall(run[i])
             /\ ProviderFailed(run[i].response) =>
                   /\ IsSuccess(run[i].result)
                   /\ ~run[i].result.summary.call_initiated
                   /\ IsError(run[i].result.call_result.call_data)
    /\ bpc = "done" =>
          /\ batch_result.summary.successful =
                Cardinality({i \in Runs : ReachedInitiateCall(run[i])})
          /\ \A i \in Runs :
                ProviderFailed(run[i].response) =>
                   \E j \in DOMAIN batch_result.successful_calls :
                       batch_result.successful_calls[j] = run[i].result

\* a batch of one request the provider refused and one that stopped before
\* the call
C36_Witness ==
    /\ bpc = "done"
    /\ Len(user_list) = 2
    /\ \E i, j \in Runs :
          /\ ProviderFailed(run[i].response)
          /\ ~ReachedInitiateCall(run[j])
    /\ batch_result.summary.successful = 1
    /\ batch_result.summary.failed = 1

\* ---- C37
Initiated(r) == "id" \in DOMAIN Get(r.call_result, "call_data", EmptyDict)

Recorded(r) ==
    \E k \in DOMAIN r.calls : r.calls[k] = Call("record_interaction", <<r.user_id, "ok">>)

\* C37: record_interaction is requested only once _make_sales_call has
\* returned, and exactly once in a run that got there, as the last request of
\* the run; when the call was not initiated (the provider failed, or the
\* context could not be built) the interaction stored has a null call_id.
C37_RecordedOnceAfterCall ==
    \A i \in Runs :
        LET r == run[i]
        IN  /\ CallsOf(r, "record_interaction") > 0 => ReachedInitiateCall(r)
            /\ CallsOf(r, "record_interaction") <= 1
            /\ (Returned(r) /\ ReachedInitiateCall(r)) =>
                  /\ CallsOf(r, "record_interaction") = 1
                  /\ r.calls[Len(r.calls)].op = "record_interaction"
                  /\ (Recorded(r) /\ ~Initiated(r)) =>
                        /\ interactions /= {}
                        /\ \A x \in interactions :
                              x.user_id = r.user_id /\ x.details.call_id = "null"

\* the context could not be built, no request went to the provider, and the
\* interaction was stored with a null call_id
C37_Witness ==
    \E i \in Runs :
        /\ Returned(run[i])
        /\ IsError(run[i].call_result)
        /\ CallsOf(run[i], "make_call") = 0
        /\ Recorded(run[i])
        /\ \E x \in interactions : x.details.call_id = "null"

\* ---- C38
SearchRaised(r) == \E k \in DOMAIN r.searches : r.searches[k] = "raise"

\* C38: when a search request of FetchEvents raises, the candidate list is
\* empty whatever the other searches returned; the run goes on, and unless
\* the Segment task fails on the user's own data it runs Segment, Match and
\* Synthesize and reaches InitiateCall with no matched event.
C38_FetchFailureYieldsNoCandidates ==
    \A i \in Runs :
        LET r == run[i]
        IN  SearchRaised(r) =>
               /\ r.game_data = << >>
               /\ "Error gathering game data" \in r.log
               /\ r.pc = "done" => Executed(r, "analyze_user_profile")
               /\ (r.pc = "done" /\ ~SegmentFailed(r)) =>
                     /\ Executed(r, "match_games_to_user")
                     /\ Executed(r, "generate_conversation_insights")
                     /\ r.game_matches.matched_games = << >>
                     /\ ReachedInitiateCall(r)
                     /\ IsSuccess(r.result)
                     /\ r.result.summary.games_recommended = 0

\* a search returned games, a later one raised, and the run got to the call
C38_Witness ==
    \E i \in Runs :
        /\ collection /= << >>
        /\ \E j, k \in DOMAIN run[i].searches :
              j < k /\ run[i].searches[j] = "hit" /\ run[i].searches[k] = "raise"
        /\ run[i].game_data = << >>
        /\ CallsOf(run[i], "make_call") = 1
        /\ run[i].pc = "done"

\* ---- C39
\* C39: whatever the history, the Segment task completes with an engagement
\* level among High, Medium and Low, and the run goes on to the Match task.
C39_SegmentCompletesOnAnyHistory ==
    \A i \in Runs :
        LET r == run[i]
        IN  Executed(r, "analyze_user_profile") =>
               /\ ~SegmentFailed(r)
               /\ r.user_analysis /= None
               /\ r.user_analysis.analysis.engagement_level \in {"High", "Medium", "Low"}
               /\ r.pc /= "done" \/ ReachedInitiateCall(r)

\* ---- C40
\* C40: every entry of the results cache is a completed result whose task_id
\* is its key, and an execute that fails, by an exception or by a returned
\* error result, leaves the cache as it was.
C40_CacheHoldsCompletedOnly ==
    /\ \A id \in DOMAIN results_cache :
          /\ results_cache[id].status = COMPLETED
          /\ results_cache[id].task_id = id
    /\ (Called("execute_task") /\ returned.value.status = ERROR) =>
          results_cache = returned.cache_before

\* an execute failed for a task id that has a completed result in the cache
C40_Witness ==
    /\ Called("execute_task")
    /\ returned.value.status = ERROR
    /\ returned.task.id \in DOMAIN returned.cache_before
    /\ results_cache[returned.task.id].status = COMPLETED
    /\ \E id \in DOMAIN results_cache : id /= returned.task.id

====
